---------------------------- MODULE Spec2Model ----------------------------
(***************************************************************************)
(* A model of the OperatorPolicy reconciler of the config-policy           *)
(* controller (controllers/operatorpolicy_controller.go).                  *)
(*                                                                         *)
(* One reconcile run is a sequence of steps, one per pipeline stage:       *)
(*   Reconcile (get policy, StartQueryBatch) -> buildResources ->          *)
(*   handleOpGroup -> handleSubscription -> handleInstallPlan ->           *)
(*   handleCSV -> handleDeployment -> handleCatalogSource ->               *)
(*   the tail of Reconcile (status update, events) ->                      *)
(*   the deferred EndQueryBatch.                                           *)
(* Between runs the environment (the user editing the policy, the          *)
(* lifecycle manager creating or advancing install plans, another user     *)
(* adding an operator group) changes the cluster.                          *)
(*                                                                         *)
(* An optional value (a Go nil-able pointer) is a sequence of length 0     *)
(* (nil) or 1.                                                             *)
(***************************************************************************)
EXTENDS Integers, Sequences, FiniteSets, TLC

Nil == <<>>
Some(x) == <<x>>
IsNil(o) == o = <<>>
Val(o) == o[1]

SeqToSet(s) == {s[i] : i \in 1..Len(s)}

(***************************************************************************)
(* Bounds of the model.                                                    *)
(***************************************************************************)
\* collaborator (watch cache / store / event) calls that may fail in one behaviour
MaxFailures == 1
\* changes the environment makes to the policy or the cluster in one behaviour
MaxEnvSteps == 1

(***************************************************************************)
(* The universe: names used by the policy and found on the cluster.        *)
(***************************************************************************)
\* r.DefaultNamespace: the namespace used when the fragment names none
DefaultNamespace == "dflt"
\* the package (and so the name) of the policy's subscription
Package == "pkg"
\* the install plans that may exist in the subscription's namespace
PlanNames == {"ip1", "ip2"}

RequiresApproval == "RequiresApproval"
Installing == "Installing"
Failed == "Failed"
Complete == "Complete"

\* the value of the constant CatalogSourceReady
CatalogSourceReady == "READY"

(***************************************************************************)
(* Condition types, one per dimension, and the kinds of related objects.   *)
(***************************************************************************)
validPolicyConditionType == "ValidPolicySpec"
opGroupConditionType == "OperatorGroupCompliant"
subConditionType == "SubscriptionCompliant"
installPlanConditionType == "InstallPlanCompliant"
csvConditionType == "ClusterServiceVersionCompliant"
deploymentConditionType == "DeploymentCompliant"
catalogSrcConditionType == "CatalogSourcesUnhealthy"

CondTypes == {validPolicyConditionType, opGroupConditionType, subConditionType,
              installPlanConditionType, csvConditionType, deploymentConditionType,
              catalogSrcConditionType}

Kinds == {"OperatorGroup", "Subscription", "InstallPlan", "ClusterServiceVersion",
          "Deployment", "CatalogSource"}

condType(kind) ==
    CASE kind = "OperatorGroup" -> opGroupConditionType
      [] kind = "Subscription" -> subConditionType
      [] kind = "InstallPlan" -> installPlanConditionType
      [] kind = "ClusterServiceVersion" -> csvConditionType
      [] kind = "Deployment" -> deploymentConditionType
      [] kind = "CatalogSource" -> catalogSrcConditionType

Cond(type, status, reason, msg) ==
    [type |-> type, status |-> status, reason |-> reason, msg |-> msg]

RelObj(kind, name, compliant, reason) ==
    [kind |-> kind, name |-> name, compliant |-> compliant, reason |-> reason]


(***************************************************************************)
(* The conditions the stages report (the condition constructors of the     *)
(* status helpers).  status is "True", "False" or "Unknown"; msg carries   *)
(* the part of the message that depends on the run.                        *)
(***************************************************************************)
validationCond(validationErrors) ==
    IF validationErrors = <<>>
    THEN Cond(validPolicyConditionType, "True", "PolicyValidated", <<>>)
    ELSE Cond(validPolicyConditionType, "False", "InvalidPolicySpec", validationErrors)

invalidCausingUnknownCond(kind) == Cond(condType(kind), "Unknown", "InvalidPolicySpec", <<>>)
missingWantedCond(kind) == Cond(condType(kind), "False", kind \o "Missing", <<>>)
createdCond(kind) == Cond(condType(kind), "True", kind \o "Created", <<>>)
matchesCond(kind) == Cond(condType(kind), "True", kind \o "Matches", <<>>)
mismatchCond(kind) == Cond(condType(kind), "False", kind \o "Mismatch", <<>>)
mismatchCondUnfixable(kind) == Cond(condType(kind), "False", kind \o "MismatchUnfixable", <<>>)
updatedCond(kind) == Cond(condType(kind), "True", kind \o "Updated", <<>>)

opGroupPreexistingCond == Cond(opGroupConditionType, "True", "PreexistingOperatorGroupFound", <<>>)
opGroupTooManyCond == Cond(opGroupConditionType, "False", "TooManyOperatorGroups", <<>>)

noInstallPlansCond == Cond(installPlanConditionType, "True", "NoInstallPlansFound", <<>>)
installPlanFailed == Cond(installPlanConditionType, "False", "InstallPlanFailed", <<>>)
installPlanInstallingCond == Cond(installPlanConditionType, "False", "InstallPlansInstalling", <<>>)
installPlansNoApprovals ==
    Cond(installPlanConditionType, "True", "NoInstallPlansRequiringApproval", <<>>)
\* versions: the target versions of every plan requiring approval, one entry per plan;
\* approvableIPs: the names of the plans that could have been approved (nil in inform mode)
installPlanUpgradeCond(versions, approvableIPs) ==
    Cond(installPlanConditionType, "False", "InstallPlanRequiresApproval",
         <<versions, approvableIPs>>)
installPlanApprovedCond(version) ==
    Cond(installPlanConditionType, "True", "InstallPlansApproved", <<version>>)

noCSVCond == Cond(csvConditionType, "False", "NoRelevantClusterServiceVersion", <<>>)
buildCSVCond(csv) ==
    Cond(csvConditionType, IF csv.phase = "Succeeded" THEN "True" ELSE "False", csv.reason, <<>>)

\* a deployment condition that never looks at the unavailable deployments
buildDeploymentCondAllAvailable(depsExist, unavailableDeps) ==
    IF ~depsExist
    THEN Cond(deploymentConditionType, "True", "NoExistingDeployments", <<>>)
    ELSE Cond(deploymentConditionType, "True", "DeploymentsAvailable", <<>>)

noDeploymentsCond == Cond(deploymentConditionType, "True", "NoRelevantDeployments", <<>>)
buildDeploymentCond(depsExist, unavailableDeps) ==
    IF ~depsExist
    THEN Cond(deploymentConditionType, "True", "NoExistingDeployments", <<>>)
    ELSE IF unavailableDeps # <<>>
    THEN Cond(deploymentConditionType, "False", "DeploymentsUnavailable", unavailableDeps)
    ELSE Cond(deploymentConditionType, "True", "DeploymentsAvailable", <<>>)

\* a catalog source condition that takes every catalog source it finds for healthy
catalogSourceFindCondFoundIsHealthy(isUnhealthy, isMissing, name) ==
    IF isMissing
    THEN Cond(catalogSrcConditionType, "True", "CatalogSourcesNotFound", <<name>>)
    ELSE Cond(catalogSrcConditionType, "False", "CatalogSourcesFound", <<>>)

catalogSourceUnknownCond == Cond(catalogSrcConditionType, "Unknown", "LastObservedUnknown", <<>>)
catalogSourceFindCond(isUnhealthy, isMissing, name) ==
    IF isMissing
    THEN Cond(catalogSrcConditionType, "True", "CatalogSourcesNotFound", <<name>>)
    ELSE IF isUnhealthy
    THEN Cond(catalogSrcConditionType, "True", "CatalogSourcesFoundUnhealthy", <<>>)
    ELSE Cond(catalogSrcConditionType, "False", "CatalogSourcesFound", <<>>)

(***************************************************************************)
(* The related objects the stages report.                                  *)
(***************************************************************************)
\* an object that has no name yet (only a generateName) is listed as "-"
relName(name) == IF name = "" THEN "-" ELSE name

missingWantedObj(kind, obj) ==
    RelObj(kind, relName(obj.name), "NonCompliant", "Resource not found but should exist")
createdObj(kind, obj) == RelObj(kind, relName(obj.name), "Compliant", "K8s creation success")
matchedObj(kind, obj) == RelObj(kind, relName(obj.name), "Compliant", "Resource found as expected")
mismatchedObj(kind, obj) ==
    RelObj(kind, relName(obj.name), "NonCompliant", "Resource found but does not match")
updatedObj(kind, obj) == RelObj(kind, relName(obj.name), "Compliant", "K8s update success")
nonCompObj(kind, obj, reason) == RelObj(kind, relName(obj.name), "NonCompliant", reason)
opGroupTooManyObjs(opGroups) ==
    {RelObj("OperatorGroup", g.name, "NonCompliant",
            "There is more than one OperatorGroup in this namespace") : g \in opGroups}
noInstallPlansObj(namespace) ==
    RelObj("InstallPlan", "-", "Compliant", "There are no relevant InstallPlans in this namespace")
existingInstallPlanObj(name, phase) ==
    RelObj("InstallPlan", name,
           IF phase \in {RequiresApproval, Installing} THEN "NonCompliant" ELSE "",
           "The InstallPlan is " \o (IF phase = "" THEN "Unknown" ELSE phase))
noExistingCSVObj == RelObj("ClusterServiceVersion", "-", "UnknownCompliancy", "No relevant CSV")
missingCSVObj(name, namespace) ==
    RelObj("ClusterServiceVersion", name, "NonCompliant", "Resource not found but should exist")
existingCSVObj(csv) ==
    RelObj("ClusterServiceVersion", csv.name,
           IF csv.phase = "Succeeded" THEN "Compliant" ELSE "NonCompliant", csv.reason)
noExistingDeploymentObj == RelObj("Deployment", "-", "UnknownCompliancy", "No relevant deployments")
missingDeploymentObj(name, namespace) ==
    RelObj("Deployment", name, "NonCompliant", "Resource not found but should exist")
existingDeploymentObj(dep) ==
    RelObj("Deployment", dep.name,
           IF dep.unavailableReplicas > 0 THEN "NonCompliant" ELSE "Compliant",
           IF dep.unavailableReplicas > 0 THEN "Deployment Unavailable" ELSE "Deployment Available")
catalogSrcUnknownObj(name, namespace) ==
    RelObj("CatalogSource", name, "UnknownCompliancy", "Resource found but current state is not known")
catalogSourceObj(name, namespace, isUnhealthy, isMissing) ==
    RelObj("CatalogSource", name,
           IF isUnhealthy THEN "NonCompliant" ELSE "Compliant",
           IF isMissing THEN "Resource not found but should exist"
           ELSE IF isUnhealthy THEN "Resource found as expected but is unhealthy"
           ELSE "Resource found as expected")

(***************************************************************************)
(* The status of the policy: one live condition per dimension and the      *)
(* related objects of each kind.                                           *)
(***************************************************************************)
EmptyStatus == [conds |-> [t \in CondTypes |-> Nil], related |-> [k \in Kinds |-> {}]]

\* a condition is a compliant verdict when its status is the good one of its
\* dimension: False for CatalogSourcesUnhealthy, True for every other type
IsCompliantCond(c) ==
    IF c.type = catalogSrcConditionType THEN c.status = "False" ELSE c.status = "True"

\* the overall compliance of the policy, as it is sent in a compliance event
calculateComplianceCondition(st) ==
    [compliant |-> \A t \in CondTypes :
                       ~IsNil(st.conds[t]) /\ IsCompliantCond(Val(st.conds[t])),
     reasons |-> [t \in CondTypes |->
                       IF IsNil(st.conds[t]) THEN "unknown" ELSE Val(st.conds[t]).reason]]

\* updateStatus sets the condition of its dimension and, when related objects
\* are given, replaces the related objects of their kind; with no related
\* object given the existing ones are left as they are.
updateStatusTo(st, cond, relObjs) ==
    [conds |-> [st.conds EXCEPT ![cond.type] = Some(cond)],
     related |-> IF relObjs = {} THEN st.related
                 ELSE LET kind == (CHOOSE o \in relObjs : TRUE).kind
                      IN [st.related EXCEPT ![kind] = relObjs]]


(***************************************************************************)
(* The policy spec and the desired objects built from it.                  *)
(*                                                                         *)
(* policy.subscription is the raw subscription fragment:                   *)
(*   namespace (nil when the fragment has no namespace field), source,     *)
(*   channel, installPlanApproval, unknownField (the fragment holds a      *)
(*   field the SubscriptionSpec does not have).                            *)
(* policy.operatorGroup is nil or the raw operator-group fragment:         *)
(*   name (nil when absent), namespace ("" when absent), targetNamespaces, *)
(*   unknownField.                                                         *)
(* The spec of an object is a map from field names to values.              *)
(***************************************************************************)
\* a reconciler that takes every policy for an enforced one
IsInformIgnored(p) == FALSE

IsNeverEnforce(p) == FALSE

IsEnforce(p) == p.remediationAction = "enforce"
IsInform(p) == p.remediationAction = "inform"

\* validation.IsDNS1123Label: the namespace names of the model that are valid labels
IsDNS1123Label(ns) == ns \in {"ns1", "dflt"}

subscriptionGVK == [kind |-> "Subscription", apiVersion |-> "operators.coreos.com/v1alpha1"]

\* a buildSubscription that does not validate installPlanApproval
buildSubscriptionUnchecked(p, defaultNS) ==
    LET frag == p.subscription
        ns == IF IsNil(frag.namespace) THEN defaultNS ELSE Val(frag.namespace)
    IN IF IsNil(frag.namespace) /\ defaultNS = ""
       THEN [sub |-> Nil, err |-> Some("namespace is required in spec.subscription")]
       ELSE IF ~IsDNS1123Label(ns)
       THEN [sub |-> Nil, err |-> Some("the namespace is not a valid namespace identifier")]
       ELSE IF frag.unknownField
       THEN [sub |-> Nil, err |-> Some("the policy spec.subscription is invalid")]
       ELSE [sub |-> Some([name |-> Package, namespace |-> ns,
                           spec |-> [name |-> Package,
                                     source |-> frag.source,
                                     channel |-> frag.channel,
                                     installPlanApproval |->
                                         IF IsEnforce(p) /\ p.versions # {}
                                         THEN "Manual" ELSE frag.installPlanApproval]]),
             err |-> Nil]

\* the (sub, err) pair returned by buildSubscription
buildSubscription(p, defaultNS) ==
    LET frag == p.subscription
        ns == IF IsNil(frag.namespace) THEN defaultNS ELSE Val(frag.namespace)
    IN IF IsNil(frag.namespace) /\ defaultNS = ""
       THEN [sub |-> Nil, err |-> Some("namespace is required in spec.subscription")]
       ELSE IF ~IsDNS1123Label(ns)
       THEN [sub |-> Nil, err |-> Some("the namespace is not a valid namespace identifier")]
       ELSE IF frag.unknownField
       THEN [sub |-> Nil, err |-> Some("the policy spec.subscription is invalid")]
       ELSE IF ~(frag.installPlanApproval = "Manual" \/ frag.installPlanApproval = "Automatic")
       THEN [sub |-> Nil, err |-> Some("spec.subscription.installPlanApproval is invalid")]
       ELSE [sub |-> Some([name |-> Package, namespace |-> ns,
                           spec |-> [name |-> Package,
                                     source |-> frag.source,
                                     channel |-> frag.channel,
                                     installPlanApproval |->
                                         IF IsEnforce(p) /\ p.versions # {}
                                         THEN "Manual" ELSE frag.installPlanApproval]]),
             err |-> Nil]

\* the (operatorGroup, err) pair returned by buildOperatorGroup
buildOperatorGroup(p, namespace) ==
    IF IsNil(p.operatorGroup)
    THEN [og |-> Some([name |-> "", generateName |-> namespace \o "-", namespace |-> namespace,
                       spec |-> [targetNamespaces |-> "[]"]]),
          err |-> Nil]
    ELSE LET frag == Val(p.operatorGroup)
         IN IF frag.namespace # "" /\ frag.namespace # namespace /\ namespace # ""
            THEN [og |-> Nil,
                  err |-> Some("the namespace specified in spec.operatorGroup must match")]
            ELSE IF IsNil(frag.name)
            THEN [og |-> Nil, err |-> Some("name is required in spec.operatorGroup")]
            ELSE IF frag.unknownField
            THEN [og |-> Nil, err |-> Some("the policy spec.operatorGroup is invalid")]
            ELSE [og |-> Some([name |-> Val(frag.name), generateName |-> "",
                               namespace |-> namespace,
                               spec |-> [targetNamespaces |-> frag.targetNamespaces]]),
                  err |-> Nil]

\* an operator-group namespace taken from the subscription fragment, whether
\* or not the subscription could be built
opGroupNamespaceOfFragment(p, defaultNS) ==
    IF IsNil(p.subscription.namespace) THEN defaultNS ELSE Val(p.subscription.namespace)

\* the namespace buildResources builds the operator group for
opGroupNamespace(p, defaultNS) ==
    LET sub == buildSubscription(p, defaultNS).sub
    IN IF ~IsNil(sub) /\ Val(sub).namespace # "" THEN Val(sub).namespace ELSE defaultNS

(***************************************************************************)
(* The merge/diff engine.                                                  *)
(***************************************************************************)
\* the fields the API server fills in when a write leaves them out
ServerDefaults == [defaulted |-> "x"]

\* the spec an object has after the API server accepted a write of `spec`
ServerDefault(spec) ==
    [k \in DOMAIN spec \cup DOMAIN ServerDefaults |->
        IF k \in DOMAIN spec THEN spec[k] ELSE ServerDefaults[k]]

\* handleKeys on the spec of the two objects: in musthave mode the desired
\* fields are set on the existing spec and the other existing fields are kept;
\* in mustonlyhave mode the merged spec is the desired spec
handleKeys(desiredSpec, existingSpec, complianceType) ==
    IF complianceType = "mustonlyhave"
    THEN desiredSpec
    ELSE [k \in DOMAIN existingSpec \cup DOMAIN desiredSpec |->
             IF k \in DOMAIN desiredSpec THEN desiredSpec[k] ELSE existingSpec[k]]

\* removeFieldsForComparison: the object without its server-managed fields
removeFieldsForComparison(obj) == [obj EXCEPT !.resourceVersion = 0]

\* a merge that never reports a difference
mergeObjectsNeverDiffers(desired, existing, complianceType, dryRunOK) ==
    [updateNeeded |-> FALSE, updateIsForbidden |-> FALSE, err |-> Nil,
     merged |-> existing, dryRun |-> FALSE]

\* a merge that returns the rejection of the dry run as an error
mergeObjectsForbiddenIsError(desired, existing, complianceType, dryRunOK) ==
    LET mergedSpec == handleKeys(desired.spec, existing.spec, complianceType)
        merged == [existing EXCEPT !.spec = mergedSpec]
        updateNeeded == mergedSpec # removeFieldsForComparison(existing).spec
    IN IF ~updateNeeded
       THEN [updateNeeded |-> FALSE, updateIsForbidden |-> FALSE, err |-> Nil,
             merged |-> merged, dryRun |-> FALSE]
       ELSE IF ~dryRunOK \/ existing.locked
       THEN [updateNeeded |-> TRUE, updateIsForbidden |-> FALSE,
             err |-> Some("dry-run update failed"), merged |-> merged, dryRun |-> TRUE]
       ELSE LET returned == removeFieldsForComparison(
                                [merged EXCEPT !.spec = ServerDefault(mergedSpec)])
            IN [updateNeeded |-> returned # removeFieldsForComparison(existing),
                updateIsForbidden |-> FALSE, err |-> Nil,
                merged |-> returned, dryRun |-> TRUE]

\* a merge that reports a difference whatever the two objects hold
mergeObjectsAlwaysDiffers(desired, existing, complianceType, dryRunOK) ==
    [updateNeeded |-> TRUE, updateIsForbidden |-> FALSE, err |-> Nil,
     merged |-> [existing EXCEPT !.spec = handleKeys(desired.spec, existing.spec, complianceType)],
     dryRun |-> FALSE]

\* a merge that strips the server-managed fields from a copy of the object
\* the dry run returned, and leaves the caller's object with them
mergeObjectsStripsCopyOnly(desired, existing, complianceType, dryRunOK) ==
    LET mergedSpec == handleKeys(desired.spec, existing.spec, complianceType)
        merged == [existing EXCEPT !.spec = mergedSpec]
        updateNeeded == mergedSpec # removeFieldsForComparison(existing).spec
    IN IF ~updateNeeded
       THEN [updateNeeded |-> FALSE, updateIsForbidden |-> FALSE, err |-> Nil,
             merged |-> merged, dryRun |-> FALSE]
       ELSE IF ~dryRunOK
       THEN [updateNeeded |-> TRUE, updateIsForbidden |-> FALSE,
             err |-> Some("dry-run update failed"), merged |-> merged, dryRun |-> TRUE]
       ELSE IF existing.locked
       THEN [updateNeeded |-> TRUE, updateIsForbidden |-> TRUE, err |-> Nil,
             merged |-> merged, dryRun |-> TRUE]
       ELSE LET returned == [merged EXCEPT !.spec = ServerDefault(mergedSpec)]
            IN [updateNeeded |-> removeFieldsForComparison(returned)
                                     # removeFieldsForComparison(existing),
                updateIsForbidden |-> FALSE, err |-> Nil,
                merged |-> returned, dryRun |-> TRUE]

\* a merge that keeps the verdict of the structural merge after the dry run
mergeObjectsKeepsFirstVerdict(desired, existing, complianceType, dryRunOK) ==
    LET mergedSpec == handleKeys(desired.spec, existing.spec, complianceType)
        merged == [existing EXCEPT !.spec = mergedSpec]
        updateNeeded == mergedSpec # removeFieldsForComparison(existing).spec
    IN IF ~updateNeeded
       THEN [updateNeeded |-> FALSE, updateIsForbidden |-> FALSE, err |-> Nil,
             merged |-> merged, dryRun |-> FALSE]
       ELSE IF ~dryRunOK
       THEN [updateNeeded |-> TRUE, updateIsForbidden |-> FALSE,
             err |-> Some("dry-run update failed"), merged |-> merged, dryRun |-> TRUE]
       ELSE IF existing.locked
       THEN [updateNeeded |-> TRUE, updateIsForbidden |-> TRUE, err |-> Nil,
             merged |-> merged, dryRun |-> TRUE]
       ELSE [updateNeeded |-> TRUE, updateIsForbidden |-> FALSE, err |-> Nil,
             merged |-> removeFieldsForComparison(
                            [merged EXCEPT !.spec = ServerDefault(mergedSpec)]),
             dryRun |-> TRUE]

\* mergeObjects(desired, existing, complianceType); dryRunOK is whether the
\* dry-run write reached the server and came back (FALSE: a collaborator error).
\* The result holds the three return values (err is nil or the error) and
\* `merged`, the object `existing` points to when mergeObjects returns.
mergeObjects(desired, existing, complianceType, dryRunOK) ==
    LET existingObjectCopy == removeFieldsForComparison(existing)
        mergedSpec == handleKeys(desired.spec, existing.spec, complianceType)
        merged == [existing EXCEPT !.spec = mergedSpec]
        updateNeeded == mergedSpec # existingObjectCopy.spec
    IN IF ~updateNeeded
       THEN [updateNeeded |-> FALSE, updateIsForbidden |-> FALSE, err |-> Nil,
             merged |-> merged, dryRun |-> FALSE]
       ELSE IF ~dryRunOK
       THEN [updateNeeded |-> TRUE, updateIsForbidden |-> FALSE,
             err |-> Some("dry-run update failed"), merged |-> merged, dryRun |-> TRUE]
       ELSE IF existing.locked
       THEN [updateNeeded |-> TRUE, updateIsForbidden |-> TRUE, err |-> Nil,
             merged |-> merged, dryRun |-> TRUE]
       ELSE LET returned == removeFieldsForComparison(
                                [merged EXCEPT !.spec = ServerDefault(mergedSpec)])
            IN [updateNeeded |-> returned # existingObjectCopy,
                updateIsForbidden |-> FALSE, err |-> Nil,
                merged |-> returned, dryRun |-> TRUE]


(***************************************************************************)
(* Calls to the collaborators.  A stage is given `fail`, the call of the   *)
(* stage that fails with a collaborator error in this run ("none", "read", *)
(* "dryrun" or "write"), and returns a record:                             *)
(*   status   the policy status after the stage                            *)
(*   changed  the stage's "status changed" return value                    *)
(*   early    the early compliance conditions it returns                   *)
(*   err      nil or the error it returns                                  *)
(*   calls    the collaborator calls it made, in order                     *)
(*   objects  the objects of its kind on the cluster after the stage       *)
(*   out      the object it hands to the later stages (nil when none)      *)
(***************************************************************************)
Call(op, kind, name, ok) == [op |-> op, kind |-> kind, name |-> name, ok |-> ok]

\* the calls of a run that change an object of the cluster for good
IsClusterWrite(call) == call.op \in {"Create", "Update", "Delete"}

Result(st, changed, early, err, calls, objects, out) ==
    [status |-> st, changed |-> changed, early |-> early, err |-> err,
     calls |-> calls, objects |-> objects, out |-> out]

\* the object the API server stores for a Create of `desired`
CreatedObject(desired) ==
    [name |-> IF desired.name = "" THEN desired.generateName \o "x" ELSE desired.name,
     generateName |-> desired.generateName,
     namespace |-> desired.namespace,
     spec |-> ServerDefault(desired.spec),
     resourceVersion |-> 1,
     locked |-> FALSE,
     createdByPolicy |-> TRUE]

\* the object the API server stores for a (persisted) Update with `merged`
UpdatedObject(merged) ==
    [merged EXCEPT !.spec = ServerDefault(merged.spec), !.resourceVersion = 1]

\* a name test that takes any group for the one the policy wants
opGroupNameAlwaysMatches(opGroup, desiredOpGroup) == TRUE

\* whether the one operator group found is the one the policy names (or would generate)
opGroupNameMatches(opGroup, desiredOpGroup) ==
    LET emptyNameMatch == desiredOpGroup.name = ""
                          /\ opGroup.generateName = desiredOpGroup.generateName
    IN opGroup.name = desiredOpGroup.name \/ emptyNameMatch

\* a List that finds no group
listNoOpGroups(groups, namespace) == {}

\* a List that returns at most one of the groups of the namespace
listOneOpGroup(groups, namespace) ==
    LET found == {g \in groups : g.namespace = namespace}
    IN IF found = {} THEN {} ELSE {CHOOSE g \in found : TRUE}

\* the operator groups List returns for the namespace
listOpGroups(groups, namespace) == {g \in groups : g.namespace = namespace}

handleOpGroup(p, st, desiredOG, groups, fail) ==
    IF IsNil(desiredOG) \/ Val(desiredOG).namespace = ""
    THEN LET st1 == updateStatusTo(st, invalidCausingUnknownCond("OperatorGroup"), {})
         IN Result(st1, st1 # st, <<>>, Nil, <<>>, groups, Nil)
    ELSE
    LET desiredOpGroup == Val(desiredOG)
        foundOpGroups == listOpGroups(groups, desiredOpGroup.namespace)
        list == Call("List", "OperatorGroup", desiredOpGroup.namespace, fail # "read")
    IN
    IF fail = "read"
    THEN Result(st, FALSE, <<>>, Some("error listing OperatorGroups"), <<list>>, groups, Nil)
    ELSE IF Cardinality(foundOpGroups) = 0
    THEN \* Missing OperatorGroup: report NonCompliance
         LET st1 == updateStatusTo(st, missingWantedCond("OperatorGroup"),
                                   {missingWantedObj("OperatorGroup", desiredOpGroup)})
             changed == st1 # st
             earlyConds == IF changed THEN <<calculateComplianceCondition(st1)>> ELSE <<>>
             created == CreatedObject(desiredOpGroup)
             create == Call("Create", "OperatorGroup", created.name, fail # "write")
             st2 == updateStatusTo(st1, createdCond("OperatorGroup"),
                                   {createdObj("OperatorGroup", created)})
         IN IF IsInform(p)
            THEN Result(st1, changed, <<>>, Nil, <<list>>, groups, Nil)
            ELSE IF fail = "write"
            THEN Result(st1, changed, <<>>, Some("error creating the OperatorGroup"),
                        <<list, create>>, groups, Nil)
            ELSE Result(st2, TRUE, earlyConds, Nil, <<list, create>>,
                        groups \cup {created}, Nil)
    ELSE IF Cardinality(foundOpGroups) = 1
    THEN LET opGroup == CHOOSE g \in foundOpGroups : TRUE
             preexisting == updateStatusTo(st, opGroupPreexistingCond,
                                           {matchedObj("OperatorGroup", opGroup)})
         IN
         IF ~opGroupNameMatches(opGroup, desiredOpGroup)
         THEN IF IsNil(p.operatorGroup)
              THEN Result(preexisting, preexisting # st, <<>>, Nil, <<list>>, groups, Nil)
              ELSE LET st1 == updateStatusTo(st, mismatchCond("OperatorGroup"),
                                    {missingWantedObj("OperatorGroup", desiredOpGroup),
                                     mismatchedObj("OperatorGroup", opGroup)})
                   IN Result(st1, st1 # st, <<>>, Nil, <<list>>, groups, Nil)
         ELSE
         LET m == mergeObjects(desiredOpGroup, opGroup, p.complianceType, fail # "dryrun")
             dry == IF m.dryRun
                    THEN <<Call("DryRunUpdate", "OperatorGroup", opGroup.name, fail # "dryrun")>>
                    ELSE <<>>
             matches == updateStatusTo(st, matchesCond("OperatorGroup"),
                                       {matchedObj("OperatorGroup", opGroup)})
             unfixable == updateStatusTo(st, mismatchCondUnfixable("OperatorGroup"),
                                         {mismatchedObj("OperatorGroup", opGroup)})
             st1 == updateStatusTo(st, mismatchCond("OperatorGroup"),
                                   {mismatchedObj("OperatorGroup", opGroup)})
             changed == st1 # st
             earlyConds == IF changed THEN <<calculateComplianceCondition(st1)>> ELSE <<>>
             update == Call("Update", "OperatorGroup", opGroup.name, fail # "write")
             st2 == updateStatusTo(st1, updatedCond("OperatorGroup"),
                                   {updatedObj("OperatorGroup", desiredOpGroup)})
         IN
         IF ~IsNil(m.err)
         THEN Result(st, FALSE, <<>>,
                     Some("error checking if the OperatorGroup needs an update"),
                     <<list>> \o dry, groups, Nil)
         ELSE IF ~m.updateNeeded
         THEN Result(matches, matches # st, <<>>, Nil, <<list>> \o dry, groups, Nil)
         ELSE IF IsNil(p.operatorGroup)
         THEN Result(preexisting, preexisting # st, <<>>, Nil, <<list>> \o dry, groups, Nil)
         ELSE IF IsEnforce(p) /\ m.updateIsForbidden
         THEN Result(unfixable, unfixable # st, <<>>, Nil, <<list>> \o dry, groups, Nil)
         ELSE IF IsInform(p)
         THEN Result(st1, changed, <<>>, Nil, <<list>> \o dry, groups, Nil)
         ELSE IF fail = "write"
         THEN Result(st1, changed, <<>>, Some("error updating the OperatorGroup"),
                     <<list>> \o dry \o <<update>>, groups, Nil)
         ELSE Result(st2, TRUE, earlyConds, Nil, <<list>> \o dry \o <<update>>,
                     (groups \ {opGroup}) \cup {UpdatedObject(m.merged)}, Nil)
    ELSE \* more than one OperatorGroup in the namespace
         LET st1 == updateStatusTo(st, opGroupTooManyCond, opGroupTooManyObjs(foundOpGroups))
         IN Result(st1, st1 # st, <<>>, Nil, <<list>>, groups, Nil)


\* the status of a subscription the lifecycle manager has not touched yet
EmptySubStatus == [installPlanRef |-> Nil, installedCSV |-> "", resolutionFailed |-> Nil]

\* the typed Subscription the later stages read: the desired one has no status
TypedSub(obj, status) ==
    [name |-> obj.name, namespace |-> obj.namespace, spec |-> obj.spec, status |-> status]

\* the Subscription the API server stores for a Create of `desired`
CreatedSubscription(desired) ==
    [name |-> desired.name,
     namespace |-> desired.namespace,
     spec |-> ServerDefault(desired.spec),
     resourceVersion |-> 1,
     locked |-> FALSE,
     createdByPolicy |-> TRUE,
     status |-> EmptySubStatus]

(***************************************************************************)
(* Text.  A message is the sequence of its characters; Text gives the      *)
(* characters of the names and phrases the model uses.                     *)
(***************************************************************************)
Text(s) ==
    CASE s = "pkg" ->
           <<"p", "k", "g">>
      [] s = "ns1" ->
           <<"n", "s", "1">>
      [] s = "other" ->
           <<"o", "t", "h", "e", "r">>
      [] s = "gatekeeper-operator" ->
           <<"g", "a", "t", "e", "k", "e", "e", "p", "e", "r", "-", "o", "p",
             "e", "r", "a", "t", "o", "r">>
      [] s = "gatekeeper-operator-product" ->
           <<"g", "a", "t", "e", "k", "e", "e", "p", "e", "r", "-", "o", "p",
             "e", "r", "a", "t", "o", "r", "-", "p", "r", "o", "d", "u", "c",
             "t">>
      [] s = "subscription" ->
           <<"s", "u", "b", "s", "c", "r", "i", "p", "t", "i", "o", "n">>
      [] s = "package" ->
           <<"p", "a", "c", "k", "a", "g", "e">>
      [] s = " " ->
           <<" ">>
      [] s = "/" ->
           <<"/">>
      [] s = "," ->
           <<",">>
      [] s = ":" ->
           <<":">>
      [] s = "." ->
           <<".">>
      [] s = "-x" ->
           <<"-", "x">>
      [] s = "" ->
           <<>>
      [] s = "constraints not satisfiable:" ->
           <<"c", "o", "n", "s", "t", "r", "a", "i", "n", "t", "s", " ", "n",
             "o", "t", " ", "s", "a", "t", "i", "s", "f", "i", "a", "b", "l",
             "e", ":">>
      [] s = "no operators found in" ->
           <<"n", "o", " ", "o", "p", "e", "r", "a", "t", "o", "r", "s", " ",
             "f", "o", "u", "n", "d", " ", "i", "n">>
      [] s = "in the catalog referenced by" ->
           <<"i", "n", " ", "t", "h", "e", " ", "c", "a", "t", "a", "l", "o",
             "g", " ", "r", "e", "f", "e", "r", "e", "n", "c", "e", "d", " ",
             "b", "y">>

\* the characters the pattern accepts after the name: white space, comma, colon
IsNameEnd(c) == c \in {" ", "\t", "\n", "\f", "\r", ",", ":"}

\* whether `text` occurs in `message` at position i, followed by the end of
\* the message or by one of the accepted characters
OccursAt(message, i, text) ==
    /\ i + Len(text) - 1 <= Len(message)
    /\ SubSeq(message, i, i + Len(text) - 1) = text
    /\ (i + Len(text) - 1 = Len(message) \/ IsNameEnd(message[i + Len(text)]))

\* a match that takes every message to be about the subscription
messageIncludesEverySubscription(subscription, message) == TRUE

\* a match that accepts any character after the name
messageIncludesSubscriptionPrefix(subscription, message) ==
    LET safeNs == Text(subscription.namespace)
        safeSubName == Text(subscription.name)
        safePackageName == Text(subscription.spec.name)
        alternatives ==
            {Text("subscription") \o Text(" ") \o safeSubName,
             Text("subscription") \o Text(" ") \o safeNs \o Text("/") \o safeSubName,
             Text("package") \o Text(" ") \o safePackageName,
             Text("package") \o Text(" ") \o safeNs \o Text("/") \o safePackageName}
    IN \E i \in 1..Len(message) : \E text \in alternatives :
          /\ i + Len(text) - 1 <= Len(message)
          /\ SubSeq(message, i, i + Len(text) - 1) = text

\* regexp.MatchString of the pattern
\*   (?:subscription (?:<name>|<ns>\/<name>)|package (?:<pkg>|<ns>\/<pkg>))(?:$|\s|,|:)
\* on the message: an unanchored search for one of the four literal
\* alternatives followed by the end of the message, white space, a comma or
\* a colon
messageIncludesSubscription(subscription, message) ==
    LET safeNs == Text(subscription.namespace)
        safeSubName == Text(subscription.name)
        safeSubNameWithNs == safeNs \o Text("/") \o safeSubName
        safePackageName == Text(subscription.spec.name)
        safePackageNameWithNs == safeNs \o Text("/") \o safePackageName
        alternatives ==
            {Text("subscription") \o Text(" ") \o safeSubName,
             Text("subscription") \o Text(" ") \o safeSubNameWithNs,
             Text("package") \o Text(" ") \o safePackageName,
             Text("package") \o Text(" ") \o safePackageNameWithNs}
    IN \E i \in 1..Len(message) : \E text \in alternatives : OccursAt(message, i, text)

handleSubscription(p, st, desired, subs, fail) ==
    IF IsNil(desired)
    THEN LET st1 == updateStatusTo(st, invalidCausingUnknownCond("Subscription"), {})
         IN Result(st1, st1 # st, <<>>, Nil, <<>>, subs, Nil)
    ELSE
    LET desiredSub == Val(desired)
        get == Call("Get", "Subscription", desiredSub.name, fail # "read")
        found == {x \in subs : x.namespace = desiredSub.namespace /\ x.name = desiredSub.name}
    IN
    IF fail = "read"
    THEN Result(st, FALSE, <<>>, Some("error getting the Subscription"), <<get>>, subs, Nil)
    ELSE IF found = {}
    THEN \* Missing Subscription: report NonCompliance
         LET st1 == updateStatusTo(st, missingWantedCond("Subscription"),
                                   {missingWantedObj("Subscription", desiredSub)})
             changed == st1 # st
             earlyConds == IF changed THEN <<calculateComplianceCondition(st1)>> ELSE <<>>
             create == Call("Create", "Subscription", desiredSub.name, fail # "write")
             st2 == updateStatusTo(st1, createdCond("Subscription"),
                                   {createdObj("Subscription", desiredSub)})
             out == Some(TypedSub(desiredSub, EmptySubStatus))
         IN IF IsInform(p)
            THEN Result(st1, changed, <<>>, Nil, <<get>>, subs, out)
            ELSE IF fail = "write"
            THEN Result(st1, changed, <<>>, Some("error creating the Subscription"),
                        <<get, create>>, subs, Nil)
            ELSE Result(st2, TRUE, earlyConds, Nil, <<get, create>>,
                        subs \cup {CreatedSubscription(desiredSub)}, out)
    ELSE
    LET foundSub == CHOOSE x \in found : TRUE
        m == mergeObjects(desiredSub, foundSub, p.complianceType, fail # "dryrun")
        dry == IF m.dryRun
               THEN <<Call("DryRunUpdate", "Subscription", foundSub.name, fail # "dryrun")>>
               ELSE <<>>
        mergedSub == Some(TypedSub(m.merged, foundSub.status))
        subResFailed == foundSub.status.resolutionFailed
        failedCond == Cond(subConditionType, "False", Val(subResFailed).reason,
                           Val(subResFailed).message)
        resFailed == updateStatusTo(st, failedCond,
                         {nonCompObj("Subscription", foundSub, Val(subResFailed).reason)})
        matches == updateStatusTo(st, matchesCond("Subscription"),
                                  {matchedObj("Subscription", foundSub)})
        unfixable == updateStatusTo(st, mismatchCondUnfixable("Subscription"),
                                    {mismatchedObj("Subscription", foundSub)})
        st1 == updateStatusTo(st, mismatchCond("Subscription"),
                              {mismatchedObj("Subscription", foundSub)})
        changed == st1 # st
        earlyConds == IF changed THEN <<calculateComplianceCondition(st1)>> ELSE <<>>
        update == Call("Update", "Subscription", foundSub.name, fail # "write")
        st2 == updateStatusTo(st1, updatedCond("Subscription"),
                              {updatedObj("Subscription", m.merged)})
    IN
    IF ~IsNil(m.err)
    THEN Result(st, FALSE, <<>>, Some("error checking if the Subscription needs an update"),
                <<get>> \o dry, subs, Nil)
    ELSE IF ~m.updateNeeded
    THEN IF ~IsNil(subResFailed)
            /\ messageIncludesSubscription(Val(mergedSub), Val(subResFailed).message)
         THEN Result(resFailed, resFailed # st, <<>>, Nil, <<get>> \o dry, subs, mergedSub)
         ELSE Result(matches, matches # st, <<>>, Nil, <<get>> \o dry, subs, mergedSub)
    ELSE IF IsEnforce(p) /\ m.updateIsForbidden
    THEN Result(unfixable, unfixable # st, <<>>, Nil, <<get>> \o dry, subs, mergedSub)
    ELSE IF IsInform(p)
    THEN Result(st1, changed, <<>>, Nil, <<get>> \o dry, subs, mergedSub)
    ELSE IF fail = "write"
    THEN Result(st1, changed, <<>>, Some("error updating the Subscription"),
                <<get>> \o dry \o <<update>>, subs, mergedSub)
    ELSE Result(st2, TRUE, earlyConds, Nil, <<get>> \o dry \o <<update>>,
                (subs \ {foundSub}) \cup {UpdatedObject(m.merged)}, mergedSub)


(***************************************************************************)
(* Install plans.  plans maps each plan name to nil (no such plan) or the  *)
(* plan: namespace, owners (its owner references), phase ("" when the      *)
(* status has none), csvs (nil when spec.clusterServiceVersionNames is     *)
(* missing, else the sequence of names), approved.                         *)
(***************************************************************************)
\* the order in which List returns the plans
PlanOrder == <<"ip1", "ip2">>

OwnerRef(kind, apiVersion, name) == [kind |-> kind, apiVersion |-> apiVersion, name |-> name]

\* an ownership check that takes any owner reference for the subscription's
ownedByAnyOwner(installPlan, sub) == installPlan.owners # {}

\* whether one of the plan's owner references names the subscription
ownedBy(installPlan, sub) ==
    \E owner \in installPlan.owners :
        /\ owner.name = sub.name
        /\ owner.kind = subscriptionGVK.kind
        /\ owner.apiVersion = subscriptionGVK.apiVersion

\* an approval check that takes an empty list of versions to allow none
isApprovableListedOnly(installPlan, versions) ==
    /\ ~IsNil(installPlan.csvs)
    /\ Len(Val(installPlan.csvs)) = 1
    /\ Val(installPlan.csvs)[1] \in versions

\* an approval check that forgets the policy's versions
isApprovableAnyVersion(installPlan, versions) ==
    /\ ~IsNil(installPlan.csvs)
    /\ Len(Val(installPlan.csvs)) = 1

\* an approval check that passes over a plan whose approval flag is set
isApprovableUnapprovedOnly(installPlan, versions) ==
    /\ ~installPlan.approved
    /\ ~IsNil(installPlan.csvs)
    /\ Len(Val(installPlan.csvs)) = 1
    /\ (versions = {} \/ Val(installPlan.csvs)[1] \in versions)

\* whether a plan requiring approval may be approved under the policy's versions
isApprovable(installPlan, versions) ==
    /\ ~IsNil(installPlan.csvs)
    /\ Len(Val(installPlan.csvs)) = 1
    /\ (versions = {} \/ Val(installPlan.csvs)[1] \in versions)

\* a report that never reads the versions of a plan
upgradeVersionsUnread(installPlan) == <<"unknown">>

\* the entry of allUpgradeVersions for a plan requiring approval
upgradeVersions(installPlan) ==
    IF IsNil(installPlan.csvs) THEN <<"unknown">> ELSE Val(installPlan.csvs)

\* a check that takes any failed plan for the current one
isAnyFailedPlan(name, installPlan, sub) == installPlan.phase = Failed

\* whether the plan is the failed plan the subscription currently refers to
isCurrentFailedPlan(name, installPlan, sub) ==
    /\ installPlan.phase = Failed
    /\ ~IsNil(sub.status.installPlanRef)
    /\ Val(sub.status.installPlanRef) = name

SeqMap(Op(_), s) == [i \in 1..Len(s) |-> Op(s[i])]

\* an InstallPlan stage that reports the approval before it writes it
handleInstallPlanReportsBeforeWrite(p, st, subOpt, plans, fail) ==
    IF IsNil(subOpt)
    THEN LET st1 == updateStatusTo(st, invalidCausingUnknownCond("InstallPlan"), {})
         IN Result(st1, st1 # st, <<>>, Nil, <<>>, plans, Nil)
    ELSE
    LET sub == Val(subOpt)
        list == Call("List", "InstallPlan", sub.namespace, fail # "read")
        Present(n) == ~IsNil(plans[n]) /\ Val(plans[n]).namespace = sub.namespace
        Owned(n) == Present(n) /\ ownedBy(Val(plans[n]), sub)
        ownedInstallPlans == SelectSeq(PlanOrder, Owned)
        Pending(n) == Val(plans[n]).phase = RequiresApproval
        AnyInstalling(n) == Val(plans[n]).phase = Installing
        CurrentFailed(n) == isCurrentFailedPlan(n, Val(plans[n]), sub)
        Approvable(n) == isApprovable(Val(plans[n]), p.versions)
        RelatedOf(n) == existingInstallPlanObj(n, Val(plans[n]).phase)
        VersionsOf(n) == upgradeVersions(Val(plans[n]))
        relatedInstallPlans == SeqToSet(SeqMap(RelatedOf, ownedInstallPlans))
        ipsRequiringApproval == SelectSeq(ownedInstallPlans, Pending)
        anyInstalling == SelectSeq(ownedInstallPlans, AnyInstalling) # <<>>
        currentPlanFailed == SelectSeq(ownedInstallPlans, CurrentFailed) # <<>>
        allUpgradeVersions == SeqMap(VersionsOf, ipsRequiringApproval)
        approvableInstallPlans == SelectSeq(ipsRequiringApproval, Approvable)
        approvedVersion == Val(Val(plans[approvableInstallPlans[1]]).csvs)[1]
        update == Call("Update", "InstallPlan", approvableInstallPlans[1], fail # "write")
        Report(cond, relObjs, calls) ==
            LET st1 == updateStatusTo(st, cond, relObjs)
            IN Result(st1, st1 # st, <<>>, Nil, calls, plans, Nil)
    IN
    IF fail = "read"
    THEN Result(st, FALSE, <<>>, Some("error listing InstallPlans"), <<list>>, plans, Nil)
    ELSE IF Len(ownedInstallPlans) = 0
    THEN Report(noInstallPlansCond, {noInstallPlansObj(sub.namespace)}, <<list>>)
    ELSE IF currentPlanFailed
    THEN Report(installPlanFailed, relatedInstallPlans, <<list>>)
    ELSE IF anyInstalling
    THEN Report(installPlanInstallingCond, relatedInstallPlans, <<list>>)
    ELSE IF Len(ipsRequiringApproval) = 0
    THEN Report(installPlansNoApprovals, relatedInstallPlans, <<list>>)
    ELSE IF IsInform(p)
    THEN Report(installPlanUpgradeCond(allUpgradeVersions, <<>>), relatedInstallPlans, <<list>>)
    ELSE IF Len(approvableInstallPlans) # 1
    THEN Report(installPlanUpgradeCond(allUpgradeVersions, approvableInstallPlans),
                relatedInstallPlans, <<list>>)
    ELSE IF fail = "write"
    THEN LET st1 == updateStatusTo(st, installPlanApprovedCond(approvedVersion),
                                   relatedInstallPlans)
         IN Result(st1, st1 # st, <<>>, Some("error updating approved InstallPlan"),
                   <<list, update>>, plans, Nil)
    ELSE LET st1 == updateStatusTo(st, installPlanApprovedCond(approvedVersion),
                                   relatedInstallPlans)
             name == approvableInstallPlans[1]
         IN Result(st1, st1 # st, <<>>, Nil, <<list, update>>,
                   [plans EXCEPT ![name] = Some([Val(plans[name]) EXCEPT !.approved = TRUE])],
                   Nil)

handleInstallPlan(p, st, subOpt, plans, fail) ==
    IF IsNil(subOpt)
    THEN LET st1 == updateStatusTo(st, invalidCausingUnknownCond("InstallPlan"), {})
         IN Result(st1, st1 # st, <<>>, Nil, <<>>, plans, Nil)
    ELSE
    LET sub == Val(subOpt)
        list == Call("List", "InstallPlan", sub.namespace, fail # "read")
        Present(n) == ~IsNil(plans[n]) /\ Val(plans[n]).namespace = sub.namespace
        Owned(n) == Present(n) /\ ownedBy(Val(plans[n]), sub)
        ownedInstallPlans == SelectSeq(PlanOrder, Owned)
        Pending(n) == Val(plans[n]).phase = RequiresApproval
        AnyInstalling(n) == Val(plans[n]).phase = Installing
        CurrentFailed(n) == isCurrentFailedPlan(n, Val(plans[n]), sub)
        Approvable(n) == isApprovable(Val(plans[n]), p.versions)
        RelatedOf(n) == existingInstallPlanObj(n, Val(plans[n]).phase)
        VersionsOf(n) == upgradeVersions(Val(plans[n]))
        relatedInstallPlans == SeqToSet(SeqMap(RelatedOf, ownedInstallPlans))
        ipsRequiringApproval == SelectSeq(ownedInstallPlans, Pending)
        anyInstalling == SelectSeq(ownedInstallPlans, AnyInstalling) # <<>>
        currentPlanFailed == SelectSeq(ownedInstallPlans, CurrentFailed) # <<>>
        allUpgradeVersions == SeqMap(VersionsOf, ipsRequiringApproval)
        approvableInstallPlans == SelectSeq(ipsRequiringApproval, Approvable)
        approvedVersion == Val(Val(plans[approvableInstallPlans[1]]).csvs)[1]
        update == Call("Update", "InstallPlan", approvableInstallPlans[1], fail # "write")
        Report(cond, relObjs, calls) ==
            LET st1 == updateStatusTo(st, cond, relObjs)
            IN Result(st1, st1 # st, <<>>, Nil, calls, plans, Nil)
    IN
    IF fail = "read"
    THEN Result(st, FALSE, <<>>, Some("error listing InstallPlans"), <<list>>, plans, Nil)
    ELSE IF Len(ownedInstallPlans) = 0
    THEN Report(noInstallPlansCond, {noInstallPlansObj(sub.namespace)}, <<list>>)
    ELSE IF currentPlanFailed
    THEN Report(installPlanFailed, relatedInstallPlans, <<list>>)
    ELSE IF anyInstalling
    THEN Report(installPlanInstallingCond, relatedInstallPlans, <<list>>)
    ELSE IF Len(ipsRequiringApproval) = 0
    THEN Report(installPlansNoApprovals, relatedInstallPlans, <<list>>)
    ELSE IF IsInform(p)
    THEN Report(installPlanUpgradeCond(allUpgradeVersions, <<>>), relatedInstallPlans, <<list>>)
    ELSE IF Len(approvableInstallPlans) # 1
    THEN Report(installPlanUpgradeCond(allUpgradeVersions, approvableInstallPlans),
                relatedInstallPlans, <<list>>)
    ELSE IF fail = "write"
    THEN Result(st, FALSE, <<>>, Some("error updating approved InstallPlan"),
                <<list, update>>, plans, Nil)
    ELSE LET st1 == updateStatusTo(st, installPlanApprovedCond(approvedVersion),
                                   relatedInstallPlans)
             name == approvableInstallPlans[1]
         IN Result(st1, st1 # st, <<>>, Nil, <<list, update>>,
                   [plans EXCEPT ![name] = Some([Val(plans[name]) EXCEPT !.approved = TRUE])],
                   Nil)

(***************************************************************************)
(* The installed-version record (ClusterServiceVersion), the deployments   *)
(* it names and the catalog source.                                        *)
(***************************************************************************)
handleCSV(p, st, subOpt, csvs, fail) ==
    LET none == updateStatusTo(st, noCSVCond, {noExistingCSVObj})
    IN
    IF IsNil(subOpt)
    THEN Result(none, none # st, <<>>, Nil, <<>>, csvs, Nil)
    ELSE
    LET sub == Val(subOpt)
        get == Call("Get", "ClusterServiceVersion", sub.status.installedCSV, fail # "read")
        found == {c \in csvs : c.namespace = sub.namespace /\ c.name = sub.status.installedCSV}
        missing == updateStatusTo(st, missingWantedCond("ClusterServiceVersion"),
                                  {missingCSVObj(sub.name, sub.namespace)})
    IN
    IF sub.status.installedCSV = ""
    THEN Result(none, none # st, <<>>, Nil, <<>>, csvs, Nil)
    ELSE IF fail = "read"
    THEN Result(st, FALSE, <<>>, Some("error getting the ClusterServiceVersion"),
                <<get>>, csvs, Nil)
    ELSE IF found = {}
    THEN Result(missing, missing # st, <<>>, Nil, <<get>>, csvs, Nil)
    ELSE LET csv == CHOOSE c \in found : TRUE
             st1 == updateStatusTo(st, buildCSVCond(csv), {existingCSVObj(csv)})
         IN Result(st1, st1 # st, <<>>, Nil, <<get>>, csvs, Some(csv))

\* a Deployment stage that takes a missing deployment for an unavailable one
handleDeploymentMissingIsUnavailable(p, st, csvOpt, deployments, fail) ==
    IF IsNil(csvOpt)
    THEN LET st1 == updateStatusTo(st, noDeploymentsCond, {noExistingDeploymentObj})
         IN Result(st1, st1 # st, <<>>, Nil, <<>>, deployments, Nil)
    ELSE
    LET csv == Val(csvOpt)
        Found(name) == {d \in deployments : d.namespace = csv.namespace /\ d.name = name}
        IsFound(name) == Found(name) # {}
        Dep(name) == CHOOSE d \in Found(name) : TRUE
        IsUnavailable(name) == ~IsFound(name) \/ Dep(name).unavailableReplicas > 0
        GetCall(name) == Call("Get", "Deployment", name, TRUE)
        RelatedOf(name) == IF IsFound(name) THEN existingDeploymentObj(Dep(name))
                           ELSE missingDeploymentObj(name, csv.namespace)
        relatedObjects == SeqToSet(SeqMap(RelatedOf, csv.deployments))
        unavailableDeployments == SelectSeq(csv.deployments, IsUnavailable)
        depNum == Len(csv.deployments)
        st1 == updateStatusTo(st, buildDeploymentCond(depNum > 0, unavailableDeployments),
                              relatedObjects)
    IN
    IF fail = "read" /\ csv.deployments # <<>>
    THEN Result(st, FALSE, <<>>, Some("error getting the Deployment"),
                <<Call("Get", "Deployment", csv.deployments[1], FALSE)>>, deployments, Nil)
    ELSE Result(st1, st1 # st, <<>>, Nil, SeqMap(GetCall, csv.deployments), deployments, Nil)

handleDeployment(p, st, csvOpt, deployments, fail) ==
    IF IsNil(csvOpt)
    THEN LET st1 == updateStatusTo(st, noDeploymentsCond, {noExistingDeploymentObj})
         IN Result(st1, st1 # st, <<>>, Nil, <<>>, deployments, Nil)
    ELSE
    LET csv == Val(csvOpt)
        Found(name) == {d \in deployments : d.namespace = csv.namespace /\ d.name = name}
        IsFound(name) == Found(name) # {}
        Dep(name) == CHOOSE d \in Found(name) : TRUE
        IsUnavailable(name) == IsFound(name) /\ Dep(name).unavailableReplicas > 0
        GetCall(name) == Call("Get", "Deployment", name, TRUE)
        RelatedOf(name) == IF IsFound(name) THEN existingDeploymentObj(Dep(name))
                           ELSE missingDeploymentObj(name, csv.namespace)
        relatedObjects == SeqToSet(SeqMap(RelatedOf, csv.deployments))
        unavailableDeployments == SelectSeq(csv.deployments, IsUnavailable)
        depNum == Len(SelectSeq(csv.deployments, IsFound))
        st1 == updateStatusTo(st, buildDeploymentCond(depNum > 0, unavailableDeployments),
                              relatedObjects)
    IN
    IF fail = "read" /\ csv.deployments # <<>>
    THEN Result(st, FALSE, <<>>, Some("error getting the Deployment"),
                <<Call("Get", "Deployment", csv.deployments[1], FALSE)>>, deployments, Nil)
    ELSE Result(st1, st1 # st, <<>>, Nil, SeqMap(GetCall, csv.deployments), deployments, Nil)

\* a catalog-source stage that reports nothing
handleCatalogSourceSilent(p, st, subOpt, catalogs, fail) ==
    Result(st, FALSE, <<>>, Nil, <<>>, catalogs, Nil)

handleCatalogSource(p, st, subOpt, catalogs, fail) ==
    IF IsNil(subOpt)
    THEN LET st1 == updateStatusTo(st, invalidCausingUnknownCond("CatalogSource"), {})
         IN Result(st1, st1 # st, <<>>, Nil, <<>>, catalogs, Nil)
    ELSE
    LET subscription == Val(subOpt)
        catalogName == subscription.spec.source
        get == Call("Get", "CatalogSource", catalogName, fail # "read")
        found == {c \in catalogs : c.name = catalogName}
        isMissing == found = {}
        catalogSrc == CHOOSE c \in found : TRUE
        isUnhealthy == isMissing \/ Val(catalogSrc.state) # CatalogSourceReady
        unknown == updateStatusTo(st, catalogSourceUnknownCond,
                                  {catalogSrcUnknownObj(catalogName, "")})
        st1 == updateStatusTo(st, catalogSourceFindCond(isUnhealthy, isMissing, catalogName),
                              {catalogSourceObj(catalogName, "", isUnhealthy, isMissing)})
    IN
    IF fail = "read"
    THEN Result(st, FALSE, <<>>, Some("error getting CatalogSource"), <<get>>, catalogs, Nil)
    ELSE IF ~isMissing /\ IsNil(catalogSrc.state)
    THEN Result(unknown, unknown # st, <<>>, Nil, <<get>>, catalogs, Nil)
    ELSE Result(st1, st1 # st, <<>>, Nil, <<get>>, catalogs, Nil)


(***************************************************************************)
(* The state.                                                              *)
(***************************************************************************)
VARIABLES
    policy,          \* the spec of the OperatorPolicy
    policyExists,    \* whether the OperatorPolicy object is in the store
    defaultNamespace,\* r.DefaultNamespace
    namespaces,      \* the namespaces of the cluster
    opGroups,        \* the OperatorGroups of the cluster
    subscriptions,   \* the Subscriptions of the cluster
    installPlans,    \* the InstallPlans of the cluster, by name
    csvs,            \* the ClusterServiceVersions of the cluster
    deployments,     \* the Deployments of the cluster
    catalogSources,  \* the CatalogSources of the cluster
    persisted,       \* the status of the policy in the store
    status,          \* policy.Status of the run's in-memory policy
    pc,              \* the position of the run
    condChanged,     \* handleResources' condChanged so far
    earlyConds,      \* handleResources' earlyComplianceEvents so far
    errs,            \* Reconcile's errs
    subscription,    \* the subscription handleSubscription returned
    csv,             \* the ClusterServiceVersion handleCSV returned
    stagesRun,       \* the stages of handleResources the run executed, in order
    calls,           \* the collaborator calls of the run, in order
    emitted,         \* the compliance events the run emitted, in order
    failures,        \* the collaborator failures so far
    envSteps,        \* the environment changes so far
    matching,        \* nil, or a call of messageIncludesSubscription and its result
    merging,         \* nil, or a call of mergeObjects and its result
    lastRun,         \* what the previous run did, and the environment changes before its end
    cachedPlans,     \* the InstallPlan objects the watch cache holds, by name
    racing           \* nil, or two runs whose OperatorGroup stages interleave

policyVars == <<policy, policyExists, defaultNamespace>>
clusterVars == <<namespaces, opGroups, subscriptions, installPlans, csvs, deployments,
                 catalogSources>>
runVars == <<status, pc, condChanged, earlyConds, errs, subscription, csv, stagesRun, calls,
             emitted>>
vars == <<policy, policyExists, defaultNamespace, namespaces, opGroups, subscriptions,
          installPlans, csvs, deployments, catalogSources, persisted, status, pc,
          condChanged, earlyConds, errs, subscription, csv, stagesRun, calls, emitted,
          failures, envSteps, matching, merging, lastRun, cachedPlans, racing>>

\* the identifier of the policy for the watch cache
opPolIdentifier == "policy"

\* the desired objects of the run (buildResources computes them from the policy)
desiredSub == buildSubscription(policy, defaultNamespace).sub
desiredOG == buildOperatorGroup(policy, opGroupNamespace(policy, defaultNamespace)).og

\* the calls of a stage that may be made to fail: "none", or one of `points`
\* while the behaviour may still see a failure
FailChoices(points) == IF failures < MaxFailures THEN {"none"} \cup points ELSE {"none"}

AnyFailed(cs) == \E i \in 1..Len(cs) : ~cs[i].ok

\* the API server refuses every write into a namespace that does not exist
NamespaceMissing == opGroupNamespace(policy, defaultNamespace) \notin namespaces
WriteChoices == IF NamespaceMissing THEN {"write"} ELSE {}
Refused(fail) == NamespaceMissing /\ fail = "write"

\* a Reconcile that returns the failure of RemoveWatcher
ReconcileReturnsRemoveError ==
    /\ pc = "idle"
    /\ \E fail \in FailChoices({"get", "remove", "start"}) :
          LET get == Call("Get", "OperatorPolicy", opPolIdentifier, fail # "get")
              remove == Call("RemoveWatcher", "", opPolIdentifier, fail # "remove")
              start == Call("StartQueryBatch", "", opPolIdentifier, fail # "start")
          IN /\ \/ /\ fail = "get"
                   /\ calls' = <<get>>
                   /\ errs' = <<"Failed to get operator policy">>
                   /\ pc' = "done"
                \/ /\ fail \in {"none", "remove"}
                   /\ ~policyExists
                   /\ calls' = <<get, remove>>
                   /\ errs' = IF fail = "remove" THEN <<"Error updating dependency watcher">>
                              ELSE <<>>
                   /\ pc' = "done"
                \/ /\ fail = "start"
                   /\ policyExists
                   /\ calls' = <<get, start>>
                   /\ errs' = <<"Could not start query batch for the watcher">>
                   /\ pc' = "done"
                \/ /\ fail = "none"
                   /\ policyExists
                   /\ calls' = <<get, start>>
                   /\ errs' = <<>>
                   /\ pc' = "build"
             /\ failures' = failures + (IF AnyFailed(calls') THEN 1 ELSE 0)
    /\ status' = persisted
    /\ condChanged' = FALSE
    /\ earlyConds' = <<>>
    /\ subscription' = Nil
    /\ csv' = Nil
    /\ stagesRun' = <<>>
    /\ emitted' = <<>>
    /\ UNCHANGED <<policyVars, clusterVars, persisted, envSteps, matching, merging, lastRun, cachedPlans, racing>>

(***************************************************************************)
(* Reconcile, up to the call of handleResources.                           *)
(***************************************************************************)
Reconcile ==
    /\ pc = "idle"
    /\ \E fail \in FailChoices({"get", "remove", "start"}) :
          LET get == Call("Get", "OperatorPolicy", opPolIdentifier, fail # "get")
              remove == Call("RemoveWatcher", "", opPolIdentifier, fail # "remove")
              start == Call("StartQueryBatch", "", opPolIdentifier, fail # "start")
          IN /\ \/ /\ fail = "get"
                   /\ calls' = <<get>>
                   /\ errs' = <<"Failed to get operator policy">>
                   /\ pc' = "done"
                \/ /\ fail \in {"none", "remove"}
                   /\ ~policyExists
                   /\ calls' = <<get, remove>>
                   /\ errs' = <<>>
                   /\ pc' = "done"
                \/ /\ fail = "start"
                   /\ policyExists
                   /\ calls' = <<get, start>>
                   /\ errs' = <<"Could not start query batch for the watcher">>
                   /\ pc' = "done"
                \/ /\ fail = "none"
                   /\ policyExists
                   /\ calls' = <<get, start>>
                   /\ errs' = <<>>
                   /\ pc' = "build"
             /\ failures' = failures + (IF AnyFailed(calls') THEN 1 ELSE 0)
    /\ status' = persisted
    /\ condChanged' = FALSE
    /\ earlyConds' = <<>>
    /\ subscription' = Nil
    /\ csv' = Nil
    /\ stagesRun' = <<>>
    /\ emitted' = <<>>
    /\ UNCHANGED <<policyVars, clusterVars, persisted, envSteps, matching, merging, lastRun, cachedPlans, racing>>

(***************************************************************************)
(* handleResources, one step per stage.  A stage that returns an error     *)
(* ends handleResources: the error is appended to errs and the run goes to *)
(* the tail of Reconcile.  r is the one result of the stage's function.    *)
(***************************************************************************)
\* a handleResources that adds a stage's condition before its write to the
\* early events whether or not the stage returned it
StageAlwaysEarly(r, fail, next) ==
    /\ (fail # "none" => AnyFailed(r.calls))
    /\ (NamespaceMissing => \A i \in 1..Len(r.calls) : IsClusterWrite(r.calls[i]) => ~r.calls[i].ok)
    /\ status' = r.status
    /\ condChanged' = (condChanged \/ r.changed)
    /\ earlyConds' = earlyConds \o
                        (IF r.early = <<>> /\ \E i \in 1..Len(r.calls) : IsClusterWrite(r.calls[i])
                         THEN <<[calculateComplianceCondition(r.status) EXCEPT !.compliant = FALSE]>>
                         ELSE r.early)
    /\ calls' = calls \o r.calls
    /\ stagesRun' = Append(stagesRun, pc)
    /\ errs' = IF IsNil(r.err) THEN errs ELSE Append(errs, Val(r.err))
    /\ pc' = IF IsNil(r.err) THEN next ELSE "tail"
    /\ failures' = failures + (IF AnyFailed(r.calls) /\ ~Refused(fail) THEN 1 ELSE 0)
    /\ UNCHANGED <<policyVars, persisted, emitted, envSteps, matching, merging, lastRun, racing>>

\* a handleResources that goes on to the next stage after a stage error
StageContinues(r, fail, next) ==
    /\ (fail # "none" => AnyFailed(r.calls))
    /\ (NamespaceMissing => \A i \in 1..Len(r.calls) : IsClusterWrite(r.calls[i]) => ~r.calls[i].ok)
    /\ status' = r.status
    /\ condChanged' = (condChanged \/ r.changed)
    /\ earlyConds' = earlyConds \o r.early
    /\ calls' = calls \o r.calls
    /\ stagesRun' = Append(stagesRun, pc)
    /\ errs' = IF IsNil(r.err) THEN errs ELSE Append(errs, Val(r.err))
    /\ pc' = next
    /\ failures' = failures + (IF AnyFailed(r.calls) /\ ~Refused(fail) THEN 1 ELSE 0)
    /\ UNCHANGED <<policyVars, persisted, emitted, envSteps, matching, merging, lastRun, racing>>

\* the part of a stage's step that is common to all stages
Stage(r, fail, next) ==
    /\ (fail # "none" => AnyFailed(r.calls))
    /\ (NamespaceMissing => \A i \in 1..Len(r.calls) : IsClusterWrite(r.calls[i]) => ~r.calls[i].ok)
    /\ status' = r.status
    /\ condChanged' = (condChanged \/ r.changed)
    /\ earlyConds' = earlyConds \o r.early
    /\ calls' = calls \o r.calls
    /\ stagesRun' = Append(stagesRun, pc)
    /\ errs' = IF IsNil(r.err) THEN errs ELSE Append(errs, Val(r.err))
    /\ pc' = IF IsNil(r.err) THEN next ELSE "tail"
    /\ failures' = failures + (IF AnyFailed(r.calls) /\ ~Refused(fail) THEN 1 ELSE 0)
    /\ UNCHANGED <<policyVars, persisted, emitted, envSteps, matching, merging, lastRun, racing>>

\* a collection that stops at the first validation error
validationErrorsFirstOnly(p, defaultNS, nss) ==
    LET sub == buildSubscription(p, defaultNS)
        opGroupNS == opGroupNamespace(p, defaultNS)
        og == buildOperatorGroup(p, opGroupNS)
    IN IF ~IsNil(sub.err) THEN <<Val(sub.err)>>
       ELSE IF ~IsNil(og.err) THEN <<Val(og.err)>>
       ELSE IF opGroupNS \in nss THEN <<>> ELSE <<"the operator namespace does not exist">>

\* buildResources: the validation errors, in the order they are collected
validationErrors(p, defaultNS, nss) ==
    LET sub == buildSubscription(p, defaultNS)
        opGroupNS == opGroupNamespace(p, defaultNS)
        og == buildOperatorGroup(p, opGroupNS)
    IN (IF IsNil(sub.err) THEN <<>> ELSE <<Val(sub.err)>>)
       \o (IF IsNil(og.err) THEN <<>> ELSE <<Val(og.err)>>)
       \o (IF opGroupNS \in nss THEN <<>> ELSE <<"the operator namespace does not exist">>)

\* a buildResources that returns the missing namespace as an error
buildResourcesNamespaceFatal(p, st, defaultNS, nss, fail) ==
    LET get == Call("Get", "Namespace", opGroupNamespace(p, defaultNS), fail # "read")
        st1 == updateStatusTo(st, validationCond(validationErrors(p, defaultNS, nss)), {})
    IN IF fail = "read"
       THEN Result(st, FALSE, <<>>, Some("error getting operator namespace"), <<get>>, nss, Nil)
       ELSE IF opGroupNamespace(p, defaultNS) \notin nss
       THEN Result(st1, st1 # st, <<>>, Some("the operator namespace does not exist"),
                   <<get>>, nss, Nil)
       ELSE Result(st1, st1 # st, <<>>, Nil, <<get>>, nss, Nil)

\* the (subscription, operatorGroup, changed, err) of buildResources, as a stage result
buildResources(p, st, defaultNS, nss, fail) ==
    LET get == Call("Get", "Namespace", opGroupNamespace(p, defaultNS), fail # "read")
        st1 == updateStatusTo(st, validationCond(validationErrors(p, defaultNS, nss)), {})
    IN IF fail = "read"
       THEN Result(st, FALSE, <<>>, Some("error getting operator namespace"), <<get>>, nss, Nil)
       ELSE Result(st1, st1 # st, <<>>, Nil, <<get>>, nss, Nil)

BuildResources ==
    /\ pc = "build"
    /\ \E fail \in FailChoices({"read"}) :
          \E r \in {buildResources(policy, status, defaultNamespace, namespaces, fail)} :
              Stage(r, fail, "og")
    /\ UNCHANGED <<clusterVars, cachedPlans, subscription, csv>>

HandleOpGroup ==
    /\ pc = "og"
    /\ \E fail \in FailChoices({"read", "dryrun", "write"}) \cup WriteChoices :
          \E r \in {handleOpGroup(policy, status, desiredOG, opGroups, fail)} :
             /\ Stage(r, fail, "sub")
             /\ opGroups' = r.objects
    /\ UNCHANGED <<namespaces, subscriptions, installPlans, csvs, deployments,
                   catalogSources, cachedPlans, subscription, csv>>

HandleSubscription ==
    /\ pc = "sub"
    /\ \E fail \in FailChoices({"read", "dryrun", "write"}) \cup WriteChoices :
          \E r \in {handleSubscription(policy, status, desiredSub, subscriptions, fail)} :
             /\ Stage(r, fail, "ip")
             /\ subscriptions' = r.objects
             /\ subscription' = r.out
    /\ UNCHANGED <<namespaces, opGroups, installPlans, csvs, deployments, catalogSources, cachedPlans, csv>>

\* a stage that sets the approval flag on a deep copy of the listed plan
approvedInPlaceOnCopy(cached, stageCalls) == cached

\* line 883: SetNestedField sets spec.approved on the Object map of the
\* listed plan, which the plan in the cache shares, before the Update is sent
approvedInPlace(cached, stageCalls) ==
    [n \in PlanNames |->
        IF \E i \in 1..Len(stageCalls) :
               /\ stageCalls[i].op = "Update"
               /\ stageCalls[i].kind = "InstallPlan"
               /\ stageCalls[i].name = n
        THEN Some([Val(cached[n]) EXCEPT !.approved = TRUE])
        ELSE cached[n]]

\* the Update of plan n reached the store
approvalWritten(n, stageCalls) ==
    \E i \in 1..Len(stageCalls) :
        /\ stageCalls[i].op = "Update"
        /\ stageCalls[i].kind = "InstallPlan"
        /\ stageCalls[i].name = n
        /\ stageCalls[i].ok

HandleInstallPlan ==
    /\ pc = "ip"
    /\ \E fail \in FailChoices({"read", "write"}) :
          \E r \in {handleInstallPlan(policy, status, subscription, cachedPlans, fail)} :
             /\ Stage(r, fail, "csv")
             /\ cachedPlans' = approvedInPlace(cachedPlans, r.calls)
             /\ installPlans' = [n \in PlanNames |->
                                    IF approvalWritten(n, r.calls) THEN cachedPlans'[n]
                                    ELSE installPlans[n]]
    /\ UNCHANGED <<namespaces, opGroups, subscriptions, csvs, deployments, catalogSources,
                   subscription, csv>>

HandleCSV ==
    /\ pc = "csv"
    /\ \E fail \in FailChoices({"read"}) :
          \E r \in {handleCSV(policy, status, subscription, csvs, fail)} :
             /\ Stage(r, fail, "dep")
             /\ csv' = r.out
    /\ UNCHANGED <<clusterVars, cachedPlans, subscription>>

HandleDeployment ==
    /\ pc = "dep"
    /\ \E fail \in FailChoices({"read"}) :
          \E r \in {handleDeployment(policy, status, csv, deployments, fail)} :
              Stage(r, fail, "cat")
    /\ UNCHANGED <<clusterVars, cachedPlans, subscription, csv>>

HandleCatalogSource ==
    /\ pc = "cat"
    /\ \E fail \in FailChoices({"read"}) :
          \E r \in {handleCatalogSource(policy, status, subscription, catalogSources, fail)} :
              Stage(r, fail, "tail")
    /\ UNCHANGED <<clusterVars, cachedPlans, subscription, csv>>

(***************************************************************************)
(* The tail of Reconcile: the status update and the compliance events.     *)
(***************************************************************************)
\* a final event in every run, whether or not a condition changed
conditionsToEmitEveryRun(early, changed, st) ==
    Append(early, calculateComplianceCondition(st))

\* a final event that reports the verdict of the last stage alone
conditionsToEmitLastStageOnly(early, changed, st) ==
    IF changed
    THEN Append(early,
                [calculateComplianceCondition(st) EXCEPT
                    !.compliant = /\ ~IsNil(st.conds[catalogSrcConditionType])
                                  /\ IsCompliantCond(Val(st.conds[catalogSrcConditionType]))])
    ELSE early

\* the conditions Reconcile emits: the early ones, then the final one when
\* the status changed
conditionsToEmit(early, changed, st) ==
    IF changed THEN Append(early, calculateComplianceCondition(st)) ELSE early

emitComplianceEvent(cond, ok) ==
    Call("Emit", "Event", IF cond.compliant THEN "Compliant" ELSE "NonCompliant", ok)

\* a Reconcile that stops emitting at the first event that fails
UpdateStatusAndEmitStopsAtFailure ==
    /\ \E fail \in FailChoices({"status", "event"}) :
       \E k \in 0..Len(conditionsToEmit(earlyConds, condChanged, status)) :
          LET conds == conditionsToEmit(earlyConds, condChanged, status)
              update == Call("StatusUpdate", "OperatorPolicy", opPolIdentifier, fail # "status")
              sent == IF k > 0 THEN k ELSE Len(conds)
              events == [i \in 1..sent |-> emitComplianceEvent(conds[i], i # k)]
              tail == (IF condChanged THEN <<update>> ELSE <<>>) \o events
          IN /\ (fail = "event") = (k > 0)
             /\ (fail # "none" => AnyFailed(tail))
             /\ persisted' = IF condChanged /\ fail # "status" THEN status ELSE persisted
             /\ emitted' = [i \in 1..sent |-> [cond |-> conds[i], ok |-> i # k]]
             /\ calls' = calls \o tail
             /\ errs' = errs
                        \o (IF condChanged /\ fail = "status"
                            THEN <<"error updating the policy status">> ELSE <<>>)
                        \o (IF k > 0 THEN <<"error emitting the compliance event">> ELSE <<>>)
             /\ failures' = failures + (IF AnyFailed(tail) THEN 1 ELSE 0)
    /\ pc' = "defer"
    /\ UNCHANGED <<policyVars, clusterVars, status, condChanged, earlyConds, subscription,
                   csv, stagesRun, envSteps, matching, merging, lastRun, cachedPlans, racing>>

\* a Reconcile that emits no event when the status update failed
UpdateStatusAndEmitOnlyWhenStored ==
    /\ \E fail \in FailChoices({"status", "event"}) :
       \E k \in 0..Len(conditionsToEmit(earlyConds, condChanged, status)) :
          LET conds == conditionsToEmit(earlyConds, condChanged, status)
              update == Call("StatusUpdate", "OperatorPolicy", opPolIdentifier, fail # "status")
              events == [i \in 1..Len(conds) |-> emitComplianceEvent(conds[i], i # k)]
              tail == IF condChanged /\ fail = "status" THEN <<update>>
                      ELSE (IF condChanged THEN <<update>> ELSE <<>>) \o events
          IN /\ (fail = "event") = (k > 0)
             /\ (fail # "none" => AnyFailed(tail))
             /\ persisted' = IF condChanged /\ fail # "status" THEN status ELSE persisted
             /\ emitted' = IF condChanged /\ fail = "status" THEN <<>>
                           ELSE [i \in 1..Len(conds) |-> [cond |-> conds[i], ok |-> i # k]]
             /\ calls' = calls \o tail
             /\ errs' = errs
                        \o (IF condChanged /\ fail = "status"
                            THEN <<"error updating the policy status">> ELSE <<>>)
                        \o (IF k > 0 THEN <<"error emitting the compliance event">> ELSE <<>>)
             /\ failures' = failures + (IF AnyFailed(tail) THEN 1 ELSE 0)
    /\ pc' = "defer"
    /\ UNCHANGED <<policyVars, clusterVars, status, condChanged, earlyConds, subscription,
                   csv, stagesRun, envSteps, matching, merging, lastRun, cachedPlans, racing>>

\* lines 170-184: the status update when a condition changed, then the events
UpdateStatusAndEmit ==
    /\ \E fail \in FailChoices({"status", "event"}) :
       \E k \in 0..Len(conditionsToEmit(earlyConds, condChanged, status)) :
          LET conds == conditionsToEmit(earlyConds, condChanged, status)
              update == Call("StatusUpdate", "OperatorPolicy", opPolIdentifier, fail # "status")
              events == [i \in 1..Len(conds) |-> emitComplianceEvent(conds[i], i # k)]
              tail == (IF condChanged THEN <<update>> ELSE <<>>) \o events
          IN /\ (fail = "event") = (k > 0)
             /\ (fail # "none" => AnyFailed(tail))
             /\ persisted' = IF condChanged /\ fail # "status" THEN status ELSE persisted
             /\ emitted' = [i \in 1..Len(conds) |-> [cond |-> conds[i], ok |-> i # k]]
             /\ calls' = calls \o tail
             /\ errs' = errs
                        \o (IF condChanged /\ fail = "status"
                            THEN <<"error updating the policy status">> ELSE <<>>)
                        \o (IF k > 0 THEN <<"error emitting the compliance event">> ELSE <<>>)
             /\ failures' = failures + (IF AnyFailed(tail) THEN 1 ELSE 0)
    /\ pc' = "defer"
    /\ UNCHANGED <<policyVars, clusterVars, status, condChanged, earlyConds, subscription,
                   csv, stagesRun, envSteps, matching, merging, lastRun, cachedPlans, racing>>

\* a Reconcile that returns the error of handleResources at once
ReconcileTailStopsOnError ==
    /\ pc = "tail"
    /\ IF errs # <<>>
       THEN /\ pc' = "defer"
            /\ UNCHANGED <<policyVars, clusterVars, persisted, status, condChanged, earlyConds,
                           errs, subscription, csv, stagesRun, calls, emitted, failures,
                           envSteps, matching, merging, lastRun, cachedPlans, racing>>
       ELSE UpdateStatusAndEmit

ReconcileTail ==
    /\ pc = "tail"
    /\ UpdateStatusAndEmit

\* a Reconcile that ends the batch only on its successful path
EndQueryBatchOnSuccessOnly ==
    /\ pc = "defer"
    /\ \E fail \in FailChoices({"end"}) :
          /\ calls' = IF errs = <<>>
                      THEN Append(calls, Call("EndQueryBatch", "", opPolIdentifier, fail # "end"))
                      ELSE calls
          /\ fail = "end" => errs = <<>>
          /\ failures' = failures + (IF fail = "end" THEN 1 ELSE 0)
    /\ pc' = "done"
    /\ UNCHANGED <<policyVars, clusterVars, persisted, status, condChanged, earlyConds, errs,
                   subscription, csv, stagesRun, emitted, envSteps, matching, merging, lastRun, cachedPlans, racing>>

\* the deferred function of Reconcile: its error is logged and dropped
EndQueryBatch ==
    /\ pc = "defer"
    /\ \E fail \in FailChoices({"end"}) :
          /\ calls' = Append(calls, Call("EndQueryBatch", "", opPolIdentifier, fail # "end"))
          /\ failures' = failures + (IF fail = "end" THEN 1 ELSE 0)
    /\ pc' = "done"
    /\ UNCHANGED <<policyVars, clusterVars, persisted, status, condChanged, earlyConds, errs,
                   subscription, csv, stagesRun, emitted, envSteps, matching, merging, lastRun, cachedPlans, racing>>

\* Reconcile has returned (the aggregate of errs); the next request may start
\* no run has returned yet
NoRun == [complete |-> FALSE, stored |-> FALSE, updated |-> FALSE, wrote |-> FALSE, envSteps |-> 0]

\* the run that returns has executed every stage and met no error
RunWasComplete ==
    /\ stagesRun = <<"build", "og", "sub", "ip", "csv", "dep", "cat">>
    /\ errs = <<>>
    /\ ~AnyFailed(calls)

\* the run that returns has changed nothing on the cluster and has left its
\* status in the store
RunStoredStatusOnly ==
    /\ \A i \in 1..Len(calls) : ~IsClusterWrite(calls[i])
    /\ persisted = status

\* the run that returns has updated the status of the policy in the store
RunUpdatedStatus ==
    \E i \in 1..Len(calls) : calls[i].op = "StatusUpdate" /\ calls[i].ok

\* the run that returns has issued a Create or a persisted Update for the
\* OperatorGroup or the Subscription
RunWroteDesired ==
    \E i \in 1..Len(calls) :
       /\ calls[i].op \in {"Create", "Update"}
       /\ calls[i].kind \in {"OperatorGroup", "Subscription"}

Return ==
    /\ pc = "done"
    /\ pc' = "idle"
    /\ status' = persisted
    /\ condChanged' = FALSE
    /\ earlyConds' = <<>>
    /\ errs' = <<>>
    /\ subscription' = Nil
    /\ csv' = Nil
    /\ stagesRun' = <<>>
    /\ calls' = <<>>
    /\ emitted' = <<>>
    /\ lastRun' = [complete |-> RunWasComplete, stored |-> RunStoredStatusOnly,
                   updated |-> RunUpdatedStatus, wrote |-> RunWroteDesired,
                   envSteps |-> envSteps]
    /\ UNCHANGED <<policyVars, clusterVars, persisted, failures, envSteps, matching, merging,
                   cachedPlans, racing>>

(***************************************************************************)
(* The environment, between two runs.                                      *)
(***************************************************************************)
\* the user switches the policy between inform and enforce
ChangeRemediationAction ==
    /\ pc = "idle"
    /\ envSteps < MaxEnvSteps
    /\ policyExists
    /\ policy' = [policy EXCEPT !.remediationAction =
                      IF IsEnforce(policy) THEN "inform" ELSE "enforce"]
    /\ envSteps' = envSteps + 1
    /\ UNCHANGED <<policyExists, defaultNamespace, clusterVars, persisted, runVars, failures, matching, merging, lastRun, cachedPlans, racing>>

\* the user deletes the policy
PolicyDeleted ==
    /\ pc = "idle"
    /\ envSteps < MaxEnvSteps
    /\ policyExists
    /\ policyExists' = FALSE
    /\ envSteps' = envSteps + 1
    /\ UNCHANGED <<policy, defaultNamespace, clusterVars, persisted, runVars, failures, matching, merging, lastRun, cachedPlans, racing>>

\* the lifecycle manager starts an approved plan, or finishes an installing one
LifecycleManagerAdvances ==
    /\ pc = "idle"
    /\ envSteps < MaxEnvSteps
    /\ \E n \in PlanNames :
          /\ ~IsNil(installPlans[n])
          /\ \/ /\ Val(installPlans[n]).phase = RequiresApproval
                /\ Val(installPlans[n]).approved
                /\ installPlans' = [installPlans EXCEPT
                                       ![n] = Some([Val(installPlans[n]) EXCEPT !.phase = Installing])]
                /\ cachedPlans' = [cachedPlans EXCEPT ![n] = installPlans'[n]]
             \/ /\ Val(installPlans[n]).phase = Installing
                /\ installPlans' = [installPlans EXCEPT
                                       ![n] = Some([Val(installPlans[n]) EXCEPT !.phase = Complete])]
                /\ cachedPlans' = [cachedPlans EXCEPT ![n] = installPlans'[n]]
    /\ envSteps' = envSteps + 1
    /\ UNCHANGED <<policyVars, namespaces, opGroups, subscriptions, csvs, deployments,
                   catalogSources, persisted, runVars, failures, matching, merging, lastRun, racing>>

\* the lifecycle manager creates a plan for the next version of the subscription
NextVersionPlan ==
    [namespace |-> "ns1",
     owners |-> {OwnerRef(subscriptionGVK.kind, subscriptionGVK.apiVersion, Package)},
     phase |-> RequiresApproval, csvs |-> Some(<<"v2">>), approved |-> FALSE]

InstallPlanCreated ==
    /\ pc = "idle"
    /\ envSteps < MaxEnvSteps
    /\ \E s \in subscriptions : s.namespace = "ns1" /\ s.name = Package
    /\ IsNil(installPlans["ip2"])
    /\ installPlans' = [installPlans EXCEPT !["ip2"] = Some(NextVersionPlan)]
    /\ cachedPlans' = [cachedPlans EXCEPT !["ip2"] = Some(NextVersionPlan)]
    /\ envSteps' = envSteps + 1
    /\ UNCHANGED <<policyVars, namespaces, opGroups, subscriptions, csvs, deployments,
                   catalogSources, persisted, runVars, failures, matching, merging, lastRun, racing>>

\* somebody deletes an install plan; the installed operator is not affected
InstallPlanDeleted ==
    /\ pc = "idle"
    /\ envSteps < MaxEnvSteps
    /\ \E n \in PlanNames :
          /\ ~IsNil(installPlans[n])
          /\ installPlans' = [installPlans EXCEPT ![n] = Nil]
          /\ cachedPlans' = [cachedPlans EXCEPT ![n] = Nil]
    /\ envSteps' = envSteps + 1
    /\ UNCHANGED <<policyVars, namespaces, opGroups, subscriptions, csvs, deployments,
                   catalogSources, persisted, runVars, failures, matching, merging, lastRun, racing>>

\* somebody else's operator group, added to the operator namespace
ExtraOpGroup ==
    [name |-> "extra", generateName |-> "", namespace |-> "ns1",
     spec |-> [targetNamespaces |-> "[]", defaulted |-> "x"],
     resourceVersion |-> 1, locked |-> FALSE, createdByPolicy |-> FALSE]

OperatorGroupAdded ==
    /\ pc = "idle"
    /\ envSteps < MaxEnvSteps
    /\ ExtraOpGroup.namespace \in namespaces
    /\ ExtraOpGroup \notin opGroups
    /\ opGroups' = opGroups \cup {ExtraOpGroup}
    /\ envSteps' = envSteps + 1
    /\ UNCHANGED <<policyVars, namespaces, subscriptions, installPlans, csvs, deployments,
                   catalogSources, persisted, runVars, failures, matching, merging, lastRun, cachedPlans, racing>>

\* the user adds the version of a plan that waits for approval to the
\* non-empty list of versions the policy allows
VersionAllowed ==
    /\ pc = "idle"
    /\ envSteps < MaxEnvSteps
    /\ policyExists
    /\ policy.versions # {}
    /\ \E n \in PlanNames :
          /\ ~IsNil(installPlans[n])
          /\ Val(installPlans[n]).phase = RequiresApproval
          /\ ~IsNil(Val(installPlans[n]).csvs)
          /\ Len(Val(installPlans[n]).csvs) = 1
          /\ Val(Val(installPlans[n]).csvs)[1] \notin policy.versions
          /\ policy' = [policy EXCEPT !.versions = @ \cup {Val(Val(installPlans[n]).csvs)[1]}]
    /\ envSteps' = envSteps + 1
    /\ UNCHANGED <<policyExists, defaultNamespace, clusterVars, persisted, runVars, failures, matching, merging, lastRun, cachedPlans, racing>>

(***************************************************************************)
(* The initial states: a policy that has not been reconciled yet, on a     *)
(* cluster in one of the configurations below.  Each family of initial     *)
(* states varies what one part of the pipeline reads and fixes the rest;   *)
(* the upgrade in progress is an initial state of every family, so that    *)
(* the lifecycle manager and the user act on install plans in each.        *)
(***************************************************************************)
ValidSubscription ==
    [namespace |-> Some("ns1"), source |-> "cat", channel |-> "stable",
     installPlanApproval |-> "Automatic", unknownField |-> FALSE]

SubscriptionFragments ==
    {ValidSubscription,
     [ValidSubscription EXCEPT !.installPlanApproval = "Manual"],
     [ValidSubscription EXCEPT !.installPlanApproval = "Incorrect"],
     [ValidSubscription EXCEPT !.unknownField = TRUE],
     [ValidSubscription EXCEPT !.namespace = Nil],
     [ValidSubscription EXCEPT !.namespace = Some("Bad_NS")]}

ValidOperatorGroup ==
    [name |-> Some("og1"), namespace |-> "", targetNamespaces |-> "[ns1]",
     unknownField |-> FALSE]

OperatorGroupFragments ==
    {Nil,
     Some(ValidOperatorGroup),
     Some([ValidOperatorGroup EXCEPT !.namespace = "dflt"]),
     Some([ValidOperatorGroup EXCEPT !.name = Nil]),
     Some([ValidOperatorGroup EXCEPT !.unknownField = TRUE])}

BasePolicy ==
    [remediationAction |-> "enforce", complianceType |-> "musthave",
     subscription |-> ValidSubscription, operatorGroup |-> Nil, versions |-> {}]

\* an operator group of the operator namespace
OpGroup(name, generateName, targetNamespaces, locked) ==
    [name |-> name, generateName |-> generateName, namespace |-> "ns1",
     spec |-> [targetNamespaces |-> targetNamespaces, defaulted |-> "x"],
     resourceVersion |-> 1, locked |-> locked, createdByPolicy |-> FALSE]

GeneratedOpGroup == OpGroup("ns1-x", "ns1-", "[]", FALSE)

OpGroupSets ==
    {{},
     {GeneratedOpGroup},
     {OpGroup("og1", "", "[ns1]", FALSE)},
     {OpGroup("og1", "", "[]", FALSE)},
     {OpGroup("og1", "", "[]", TRUE)},
     {OpGroup("ns1-x", "ns1-", "[ns1]", TRUE)},
     {OpGroup("ns1-x", "ns1-", "[ns1]", FALSE)},
     {ExtraOpGroup},
     {OpGroup("og1", "", "[ns1]", FALSE), ExtraOpGroup},
     {GeneratedOpGroup, ExtraOpGroup}}

\* the policy's subscription as found on the cluster
Sub(channel, approval, locked, subStatus) ==
    [name |-> Package, namespace |-> "ns1",
     spec |-> [name |-> Package, source |-> "cat", channel |-> channel,
               installPlanApproval |-> approval, defaulted |-> "x"],
     resourceVersion |-> 1, locked |-> locked, createdByPolicy |-> FALSE,
     status |-> subStatus]

\* the subscription with a field the policy does not set
SubWithConfig ==
    [name |-> Package, namespace |-> "ns1",
     spec |-> [name |-> Package, source |-> "cat", channel |-> "stable",
               installPlanApproval |-> "Automatic", defaulted |-> "x", config |-> "c"],
     resourceVersion |-> 1, locked |-> FALSE, createdByPolicy |-> FALSE,
     status |-> EmptySubStatus]

\* A mention of a subscription or a package in a message of the lifecycle
\* manager: the keyword, the namespace prefix ("" when there is none), the
\* name, and the text that follows the name.
Mention(keyword, namespace, name, after) ==
    [keyword |-> keyword, namespace |-> namespace, name |-> name, after |-> after]

\* the text of one mention, as the resolver writes it
MentionText(m) ==
    Text(" ")
    \o Text(IF m.keyword = "package" THEN "no operators found in"
                                      ELSE "in the catalog referenced by")
    \o Text(" ") \o Text(m.keyword) \o Text(" ")
    \o (IF m.namespace = "" THEN <<>> ELSE Text(m.namespace) \o Text("/"))
    \o Text(m.name) \o Text(m.after)

RECURSIVE MentionsText(_)
MentionsText(mentions) ==
    IF mentions = <<>> THEN <<>>
    ELSE MentionText(Head(mentions)) \o MentionsText(Tail(mentions))

\* the ConstraintsNotSatisfiable message with the given mentions
ResolutionMessage(mentions) == Text("constraints not satisfiable:") \o MentionsText(mentions)

ResolutionFailed(message) ==
    [EmptySubStatus EXCEPT
        !.resolutionFailed = Some([reason |-> "ConstraintsNotSatisfiable", message |-> message])]

SubscriptionSets ==
    {{},
     {Sub("stable", "Automatic", FALSE, EmptySubStatus)},
     {Sub("stable", "Manual", FALSE, EmptySubStatus)},
     {Sub("beta", "Automatic", FALSE, EmptySubStatus)},
     {Sub("beta", "Automatic", TRUE, EmptySubStatus)},
     {SubWithConfig},
     {Sub("stable", "Automatic", FALSE,
          ResolutionFailed(ResolutionMessage(<<Mention("package", "", Package, ""),
                                               Mention("subscription", "", Package, ",")>>)))},
     {Sub("stable", "Automatic", FALSE,
          ResolutionFailed(ResolutionMessage(<<Mention("subscription", "", "other", "")>>)))}}

\* the subscription of the install-plan configurations
InstalledSub(installPlanRef, installedCSV) ==
    Sub("stable", "Automatic", FALSE,
        [EmptySubStatus EXCEPT !.installPlanRef = installPlanRef,
                               !.installedCSV = installedCSV])

Plan(namespace, owner, phase, planCSVs) ==
    [namespace |-> namespace,
     owners |-> {OwnerRef("Subscription", "operators.coreos.com/v1alpha1", owner)},
     phase |-> phase, csvs |-> planCSVs, approved |-> FALSE]

Csv(phase, csvDeployments) ==
    [name |-> "v1", namespace |-> "ns1", phase |-> phase,
     reason |-> IF phase = "Succeeded" THEN "InstallSucceeded" ELSE "InstallWaiting",
     deployments |-> csvDeployments]

CsvSets ==
    {{}, {Csv("Succeeded", <<"d1">>)}, {Csv("Succeeded", <<"d1", "d2">>)},
     {Csv("Installing", <<"d1">>)}}

Deployment(name, unavailableReplicas) ==
    [name |-> name, namespace |-> "ns1", unavailableReplicas |-> unavailableReplicas]

DeploymentSets ==
    {{}, {Deployment("d1", 0)}, {Deployment("d1", 1)},
     {Deployment("d1", 0), Deployment("d2", 1)}}

CatalogSource(state) == [name |-> "cat", state |-> state]

CatalogSourceSets ==
    {{}, {CatalogSource(Some(CatalogSourceReady))}, {CatalogSource(Some("CONNECTING"))},
     {CatalogSource(Nil)}}

NoPlans == [n \in PlanNames |-> Nil]
HealthyCatalog == {CatalogSource(Some(CatalogSourceReady))}

\* an upgrade in progress under an enforced policy that allows the installed
\* version only: the first plan is installing, the plan for the next version
\* waits for approval
InitUpgrade ==
    /\ policy = [BasePolicy EXCEPT !.versions = {"v1"}]
    /\ defaultNamespace = DefaultNamespace
    /\ namespaces = {"ns1", "dflt"}
    /\ opGroups = {GeneratedOpGroup}
    /\ subscriptions = {InstalledSub(Some("ip1"), "")}
    /\ installPlans = [n \in PlanNames |->
                          IF n = "ip1" THEN Some(Plan("ns1", Package, Installing, Some(<<"v1">>)))
                          ELSE Some(NextVersionPlan)]
    /\ csvs = {}
    /\ deployments = {}
    /\ catalogSources = HealthyCatalog

\* the policy has not been reconciled yet
Unreconciled ==
    /\ policyExists = TRUE
    /\ persisted = EmptyStatus
    /\ status = EmptyStatus
    /\ pc = "idle"
    /\ condChanged = FALSE
    /\ earlyConds = <<>>
    /\ errs = <<>>
    /\ subscription = Nil
    /\ csv = Nil
    /\ stagesRun = <<>>
    /\ calls = <<>>
    /\ emitted = <<>>
    /\ failures = 0
    /\ envSteps = 0
    /\ matching = Nil
    /\ merging = Nil
    /\ lastRun = NoRun
    /\ cachedPlans = installPlans
    /\ racing = Nil

\* The fragments of the policies of InitValidation, subscription fragment
\* first: every subscription fragment without an operator-group fragment,
\* every operator-group fragment with the valid subscription fragment, the
\* operator group of the default namespace with the subscription fragment that
\* leaves the namespace to the controller's default, and two fragments that are
\* both invalid.
PolicyFragments ==
    {<<frag, Nil>> : frag \in SubscriptionFragments}
    \cup {<<ValidSubscription, og>> : og \in OperatorGroupFragments}
    \cup {<<[ValidSubscription EXCEPT !.namespace = Nil],
            Some([ValidOperatorGroup EXCEPT !.namespace = "dflt"])>>,
          <<[ValidSubscription EXCEPT !.installPlanApproval = "Incorrect"],
            Some([ValidOperatorGroup EXCEPT !.name = Nil])>>}

\* policies that may be invalid, on a cluster without the operator
InitValidation ==
    /\ \/ InitUpgrade
       \/ /\ \E frags \in PolicyFragments, action \in {"inform", "enforce"} :
                 /\ policy = [BasePolicy EXCEPT !.subscription = frags[1], !.operatorGroup = frags[2],
                                                !.remediationAction = action]
                 /\ defaultNamespace \in {DefaultNamespace} \cup
                                          (IF IsNil(frags[1].namespace) /\ IsNil(frags[2])
                                           THEN {""} ELSE {})
           /\ namespaces \in {{"ns1", "dflt"}, {"dflt"}}
           /\ opGroups = {}
           /\ subscriptions = {}
           /\ installPlans = NoPlans
           /\ csvs = {}
           /\ deployments = {}
           /\ catalogSources = HealthyCatalog
    /\ Unreconciled

\* The operator groups a policy may find, operator-group fragment first: a
\* policy without the fragment finds groups with a generated name, a policy
\* that names its group finds groups of that name, and either finds none or
\* somebody else's.
OpGroupCases ==
    {c \in {Nil, Some(ValidOperatorGroup)} \X OpGroupSets :
        \A g \in c[2] : \/ g = ExtraOpGroup
                        \/ IsNil(c[1]) /\ g.generateName # ""
                        \/ ~IsNil(c[1]) /\ g.generateName = ""}

\* the remediation action and the compliance type of the policies: a policy
\* that informs is a must-have policy
PolicyKinds == {<<"inform", "musthave">>, <<"enforce", "musthave">>, <<"enforce", "mustonlyhave">>}

\* valid policies, and the operator groups they may find
InitOperatorGroups ==
    /\ \/ InitUpgrade
       \/ /\ \E c \in OpGroupCases, kind \in PolicyKinds :
                 /\ policy = [BasePolicy EXCEPT !.operatorGroup = c[1], !.remediationAction = kind[1],
                                                !.complianceType = kind[2]]
                 /\ opGroups = c[2]
           /\ defaultNamespace = DefaultNamespace
           /\ namespaces = {"ns1", "dflt"}
           /\ subscriptions = {}
           /\ installPlans = NoPlans
           /\ csvs = {}
           /\ deployments = {}
           /\ catalogSources = HealthyCatalog
    /\ Unreconciled

\* The objects the merge engine may compare with the desired ones, operator
\* groups first: every subscription next to the operator group that matches,
\* and the operator groups with a generated name that do not match, locked or
\* not, before the subscription exists.
FoundObjects ==
    {<<{GeneratedOpGroup}, subs>> : subs \in SubscriptionSets}
    \cup {<<{OpGroup("ns1-x", "ns1-", "[ns1]", locked)}, {}>> : locked \in BOOLEAN}

\* valid policies, those that enforce must-have also with a list of allowed
\* versions, and the operator group and the subscription they may find
InitSubscriptions ==
    /\ \/ InitUpgrade
       \/ /\ \E kind \in PolicyKinds, versions \in {{}, {"v1"}} :
                 /\ versions # {} => kind = <<"enforce", "musthave">>
                 /\ policy = [BasePolicy EXCEPT !.remediationAction = kind[1],
                                                !.complianceType = kind[2],
                                                !.versions = versions]
           /\ defaultNamespace = DefaultNamespace
           /\ namespaces = {"ns1", "dflt"}
           /\ \E found \in FoundObjects :
                 /\ opGroups = found[1]
                 /\ subscriptions = found[2]
           /\ installPlans = NoPlans
           /\ csvs = {}
           /\ deployments = {}
           /\ catalogSources = HealthyCatalog
    /\ Unreconciled

\* action: the remediation action of the policy; versions: the versions it
\* allows; first, second: the install plans ip1 and ip2; ref: whether the
\* subscription refers to the first plan as its current plan
PlanCluster(action, versions, first, second, ref) ==
    [action |-> action, versions |-> versions, first |-> first, second |-> second, ref |-> ref]

PlanClusters ==
    {\* no plan yet
     PlanCluster("enforce", {}, Nil, Nil, FALSE),
     \* one plan that waits for approval
     PlanCluster("inform", {}, Some(Plan("ns1", Package, RequiresApproval, Some(<<"v1">>))), Nil, FALSE),
     PlanCluster("enforce", {}, Some(Plan("ns1", Package, RequiresApproval, Some(<<"v1">>))), Nil, FALSE),
     PlanCluster("enforce", {}, Some(Plan("ns1", Package, RequiresApproval, Some(<<"v2">>))), Nil, FALSE),
     PlanCluster("enforce", {}, Some(Plan("ns1", Package, RequiresApproval, Some(<<"v2">>))), Nil, TRUE),
     \* the only plan installs a version the policy does not allow
     PlanCluster("enforce", {"v1"}, Some(Plan("ns1", Package, RequiresApproval, Some(<<"v2">>))),
                 Nil, FALSE),
     \* one plan for two versions, one plan that names no version
     PlanCluster("enforce", {}, Some(Plan("ns1", Package, RequiresApproval, Some(<<"v1", "v2">>))),
                 Nil, FALSE),
     PlanCluster("enforce", {}, Some(Plan("ns1", Package, RequiresApproval, Nil)),
                 Some(Plan("ns1", Package, RequiresApproval, Some(<<"v2">>))), FALSE),
     \* two plans that wait for approval
     PlanCluster("inform", {}, Some(Plan("ns1", Package, RequiresApproval, Some(<<"v1">>))),
                 Some(Plan("ns1", Package, RequiresApproval, Some(<<"v2">>))), FALSE),
     PlanCluster("enforce", {}, Some(Plan("ns1", Package, RequiresApproval, Some(<<"v1">>))),
                 Some(Plan("ns1", Package, RequiresApproval, Some(<<"v2">>))), FALSE),
     PlanCluster("enforce", {}, Some(Plan("ns1", Package, RequiresApproval, Some(<<"v1", "v2">>))),
                 Some(Plan("ns1", Package, RequiresApproval, Some(<<"v1">>))), FALSE),
     \* one plan the policy allows next to one it does not allow
     PlanCluster("enforce", {"v1"}, Some(Plan("ns1", Package, RequiresApproval, Some(<<"v1">>))),
                 Some(Plan("ns1", Package, RequiresApproval, Some(<<"v2">>))), FALSE),
     \* a plan of another subscription, a plan of another namespace
     PlanCluster("enforce", {}, Some(Plan("ns1", "other", RequiresApproval, Some(<<"v1">>))),
                 Nil, FALSE),
     PlanCluster("enforce", {}, Some(Plan("other", Package, RequiresApproval, Some(<<"v1">>))),
                 Nil, FALSE),
     \* a plan that is installing, has failed, is complete
     PlanCluster("enforce", {}, Some(Plan("ns1", Package, Installing, Some(<<"v1">>))), Nil, TRUE),
     PlanCluster("inform", {}, Some(Plan("ns1", Package, Failed, Some(<<"v1">>))), Nil, TRUE),
     PlanCluster("enforce", {}, Some(Plan("ns1", Package, Failed, Some(<<"v1">>))), Nil, TRUE),
     PlanCluster("enforce", {}, Some(Plan("ns1", Package, Failed, Some(<<"v1">>))),
                 Some(Plan("ns1", Package, Installing, Some(<<"v2">>))), FALSE),
     PlanCluster("enforce", {}, Some(Plan("ns1", Package, Complete, Some(<<"v1">>))),
                 Some(Plan("ns1", Package, RequiresApproval, Some(<<"v2">>))), TRUE)}

\* the install plans of an installed subscription
InitInstallPlans ==
    /\ \/ InitUpgrade
       \/ /\ \E c \in PlanClusters :
                 /\ policy = [BasePolicy EXCEPT !.remediationAction = c.action, !.versions = c.versions]
                 /\ installPlans = [n \in PlanNames |-> IF n = "ip1" THEN c.first ELSE c.second]
                 /\ subscriptions = {InstalledSub(IF c.ref THEN Some("ip1") ELSE Nil, "")}
           /\ defaultNamespace = DefaultNamespace
           /\ namespaces = {"ns1", "dflt"}
           /\ opGroups = {GeneratedOpGroup}
           /\ csvs = {}
           /\ deployments = {}
           /\ catalogSources = HealthyCatalog
    /\ Unreconciled

\* The installed version, its deployments and the catalog source: every
\* record of the installed version and every set of deployments next to the
\* healthy catalog source, and every catalog source before and after the
\* installation.
InitInstalled ==
    /\ \/ InitUpgrade
       \/ /\ policy = BasePolicy
           /\ defaultNamespace = DefaultNamespace
           /\ namespaces = {"ns1", "dflt"}
           /\ opGroups = {GeneratedOpGroup}
           /\ installPlans = NoPlans
           /\ \/ /\ subscriptions = {InstalledSub(Nil, "v1")}
                 /\ csvs \in CsvSets
                 /\ deployments \in DeploymentSets
                 /\ catalogSources = HealthyCatalog
              \/ /\ \E installedCSV \in {"", "v1"} : subscriptions = {InstalledSub(Nil, installedCSV)}
                 /\ csvs = {}
                 /\ deployments = {}
                 /\ catalogSources \in CatalogSourceSets
    /\ Unreconciled

Next ==
    \/ Reconcile
    \/ BuildResources
    \/ HandleOpGroup
    \/ HandleSubscription
    \/ HandleInstallPlan
    \/ HandleCSV
    \/ HandleDeployment
    \/ HandleCatalogSource
    \/ ReconcileTail
    \/ EndQueryBatch
    \/ Return
    \/ ChangeRemediationAction
    \/ PolicyDeleted
    \/ LifecycleManagerAdvances
    \/ InstallPlanCreated
    \/ InstallPlanDeleted
    \/ OperatorGroupAdded
    \/ VersionAllowed

\* one specification for each family of initial states
ValidationSpec == InitValidation /\ [][Next]_vars

OperatorGroupSpec == InitOperatorGroups /\ [][Next]_vars

SubscriptionSpec == InitSubscriptions /\ [][Next]_vars

InstallPlanSpec == InitInstallPlans /\ [][Next]_vars

InstalledSpec == InitInstalled /\ [][Next]_vars

(***************************************************************************)
(* mergeObjects on its own: a desired and an existing object with specs    *)
(* over the fields a and b, the existing one as the server stored it, in   *)
(* either compliance type, with a dry run that fails, is refused or is     *)
(* accepted.                                                               *)
(***************************************************************************)
MergeKeys == {"a", "b"}
MergeValues == {1, 2, 3}
ObservedResourceVersion == 7

\* the maps from some of the keys to values
MergeSpecs ==
    UNION {[keys -> MergeValues] : keys \in SUBSET MergeKeys}

MergeInit ==
    /\ policy = BasePolicy
    /\ defaultNamespace = DefaultNamespace
    /\ namespaces = {"ns1", "dflt"}
    /\ opGroups = {}
    /\ subscriptions = {}
    /\ installPlans = NoPlans
    /\ csvs = {}
    /\ deployments = {}
    /\ catalogSources = HealthyCatalog
    /\ policyExists = TRUE
    /\ persisted = EmptyStatus
    /\ status = EmptyStatus
    /\ pc = "idle"
    /\ condChanged = FALSE
    /\ earlyConds = <<>>
    /\ errs = <<>>
    /\ subscription = Nil
    /\ csv = Nil
    /\ stagesRun = <<>>
    /\ calls = <<>>
    /\ emitted = <<>>
    /\ failures = 0
    /\ envSteps = 0
    /\ matching = Nil
    /\ lastRun = NoRun
    /\ cachedPlans = installPlans
    /\ racing = Nil
    /\ \E desiredSpec \in MergeSpecs, existingSpec \in MergeSpecs,
          complianceType \in {"musthave", "mustonlyhave"},
          locked \in BOOLEAN, dryRunOK \in BOOLEAN :
          merging = Some([desired |-> [name |-> "obj", spec |-> desiredSpec],
                          existing |-> [name |-> "obj",
                                        spec |-> ServerDefault(existingSpec),
                                        resourceVersion |-> ObservedResourceVersion,
                                        locked |-> locked],
                          complianceType |-> complianceType,
                          dryRunOK |-> dryRunOK,
                          result |-> Nil])

\* one call of mergeObjects
MergeObjects ==
    /\ ~IsNil(merging)
    /\ IsNil(Val(merging).result)
    /\ merging' = Some([Val(merging) EXCEPT
                           !.result = Some(mergeObjects(Val(merging).desired,
                                                        Val(merging).existing,
                                                        Val(merging).complianceType,
                                                        Val(merging).dryRunOK))])
    /\ UNCHANGED <<policyVars, clusterVars, persisted, runVars, failures, envSteps, matching,
                   lastRun, cachedPlans, racing>>

MergeNext == MergeObjects

MergeSpec == MergeInit /\ [][MergeNext]_vars

(***************************************************************************)
(* Fair scheduling of the runs.  The work queue of the controller hands    *)
(* every pending request to Reconcile, and a Reconcile that has started    *)
(* runs to its return: a step of the run that stays enabled is taken.  The *)
(* environment is under no obligation.                                     *)
(***************************************************************************)
RunStep ==
    \/ Reconcile
    \/ BuildResources
    \/ HandleOpGroup
    \/ HandleSubscription
    \/ HandleInstallPlan
    \/ HandleCSV
    \/ HandleDeployment
    \/ HandleCatalogSource
    \/ ReconcileTail
    \/ EndQueryBatch
    \/ Return

\* the clusters of the fair runs: an installed subscription with plans that
\* wait for approval, under an enforced policy.  versions: the versions the
\* policy allows; first, second: the plans; ref: the subscription's plan
FairCluster(versions, first, second, ref) ==
    [versions |-> versions, first |-> first, second |-> second, ref |-> ref]

FairClusters ==
    {\* the only plan installs a version the policy does not allow yet
     FairCluster({"v1"}, Some(Plan("ns1", Package, RequiresApproval, Some(<<"v2">>))), Nil, Nil),
     \* the only plan installs a version of a policy that allows every version
     FairCluster({}, Some(Plan("ns1", Package, RequiresApproval, Some(<<"v1">>))), Nil, Nil),
     \* one plan the policy allows next to one it does not allow
     FairCluster({"v1"}, Some(Plan("ns1", Package, RequiresApproval, Some(<<"v1">>))),
                 Some(NextVersionPlan), Nil),
     \* the subscription's current plan has failed
     FairCluster({"v1"}, Some(Plan("ns1", Package, Failed, Some(<<"v1">>))),
                 Some(Plan("ns1", Package, RequiresApproval, Some(<<"v1">>))), Some("ip1")),
     \* a failed plan that is not the subscription's current plan
     FairCluster({"v1"}, Some(Plan("ns1", Package, Failed, Some(<<"v1">>))),
                 Some(Plan("ns1", Package, RequiresApproval, Some(<<"v1">>))), Nil)}

FairInit ==
    /\ \E c \in FairClusters :
          /\ policy = [BasePolicy EXCEPT !.versions = c.versions]
          /\ installPlans = [n \in PlanNames |-> IF n = "ip1" THEN c.first ELSE c.second]
          /\ subscriptions = {InstalledSub(c.ref, "")}
    /\ defaultNamespace = DefaultNamespace
    /\ namespaces = {"ns1", "dflt"}
    /\ opGroups = {GeneratedOpGroup}
    /\ csvs = {}
    /\ deployments = {}
    /\ catalogSources = HealthyCatalog
    /\ policyExists = TRUE
    /\ persisted = EmptyStatus
    /\ status = EmptyStatus
    /\ pc = "idle"
    /\ condChanged = FALSE
    /\ earlyConds = <<>>
    /\ errs = <<>>
    /\ subscription = Nil
    /\ csv = Nil
    /\ stagesRun = <<>>
    /\ calls = <<>>
    /\ emitted = <<>>
    /\ failures = 0
    /\ envSteps = 0
    /\ matching = Nil
    /\ merging = Nil
    /\ lastRun = NoRun
    /\ cachedPlans = installPlans
    /\ racing = Nil

FairSpec == FairInit /\ [][Next]_vars /\ WF_vars(RunStep)

(***************************************************************************)
(* messageIncludesSubscription on its own: the subscription of a policy    *)
(* for one of two packages, the name of one a prefix of the other's, and a *)
(* resolution-failure message with one or two mentions.                    *)
(***************************************************************************)
MatchPackages == {"gatekeeper-operator", "gatekeeper-operator-product"}

\* the subscription of the policy for the package, as handleSubscription has it
MatchSubscription(package) ==
    TypedSub([name |-> package, namespace |-> "ns1",
              spec |-> [name |-> package, source |-> "cat", channel |-> "stable",
                        installPlanApproval |-> "Automatic", defaulted |-> "x"]],
             EmptySubStatus)

\* what may follow a name in a message
MatchAfter == {"", ",", ":", ".", "-x"}

MatchMentions ==
    {<<Mention(keyword, namespace, name, after)>> :
        keyword \in {"subscription", "package"}, namespace \in {"", "ns1", "other"},
        name \in MatchPackages, after \in MatchAfter}
    \cup
    {<<Mention("package", "", p, ""), Mention("subscription", "", n, after)>> :
        p \in MatchPackages, n \in MatchPackages, after \in {",", "."}}

MatchInit ==
    /\ policy = BasePolicy
    /\ defaultNamespace = DefaultNamespace
    /\ namespaces = {"ns1", "dflt"}
    /\ opGroups = {}
    /\ subscriptions = {}
    /\ installPlans = NoPlans
    /\ csvs = {}
    /\ deployments = {}
    /\ catalogSources = HealthyCatalog
    /\ policyExists = TRUE
    /\ persisted = EmptyStatus
    /\ status = EmptyStatus
    /\ pc = "idle"
    /\ condChanged = FALSE
    /\ earlyConds = <<>>
    /\ errs = <<>>
    /\ subscription = Nil
    /\ csv = Nil
    /\ stagesRun = <<>>
    /\ calls = <<>>
    /\ emitted = <<>>
    /\ failures = 0
    /\ envSteps = 0
    /\ merging = Nil
    /\ lastRun = NoRun
    /\ cachedPlans = installPlans
    /\ racing = Nil
    /\ \E package \in MatchPackages, mentions \in MatchMentions :
          matching = Some([subscription |-> MatchSubscription(package),
                           mentions |-> mentions,
                           message |-> ResolutionMessage(mentions),
                           result |-> Nil])

\* one call of messageIncludesSubscription
MatchMessage ==
    /\ ~IsNil(matching)
    /\ IsNil(Val(matching).result)
    /\ matching' = Some([Val(matching) EXCEPT
                            !.result = Some(messageIncludesSubscription(
                                                Val(matching).subscription,
                                                Val(matching).message))])
    /\ UNCHANGED <<policyVars, clusterVars, persisted, runVars, failures, envSteps, merging, lastRun, cachedPlans, racing>>

MatchNext == MatchMessage

MatchSpec == MatchInit /\ [][MatchNext]_vars


(***************************************************************************)
(* Properties.                                                             *)
(***************************************************************************)
\* the calls that persist anything: cluster writes and the policy's status update
IsPersistedWrite(call) == IsClusterWrite(call) \/ call.op = "StatusUpdate"

(***************************************************************************)
(* Two runs whose OperatorGroup stages interleave: two policies without an *)
(* operator-group fragment that resolve to the same namespace (nothing     *)
(* serialises the runs of different policies), or one policy whose second  *)
(* run lists from a cache that does not show the first run's group yet.    *)
(* Each run lists the groups, and later acts on what it listed.            *)
(***************************************************************************)
Racers == {1, 2}

\* the suffixes the API server may append to a generateName
NameSuffixes == {"x", "y"}

\* the names of the stored groups of a namespace
StoredNames(store, namespace) == {g.name : g \in {h \in store : h.namespace = namespace}}

\* the object the API server stores for a Create: a generated name is one
\* that no stored object of the namespace has
ServerCreate(store, created) ==
    IF created.generateName = "" \/ created.name \notin StoredNames(store, created.namespace)
    THEN created
    ELSE [created EXCEPT !.name =
             created.generateName \o
             (CHOOSE x \in NameSuffixes :
                 created.generateName \o x \notin StoredNames(store, created.namespace))]

RaceInit ==
    /\ \E action \in {"inform", "enforce"}, complianceType \in {"musthave", "mustonlyhave"} :
          policy = [BasePolicy EXCEPT !.operatorGroup = Nil, !.remediationAction = action,
                                      !.complianceType = complianceType]
    /\ defaultNamespace = DefaultNamespace
    /\ namespaces = {"ns1", "dflt"}
    /\ opGroups \in OpGroupSets
    /\ subscriptions = {}
    /\ installPlans = NoPlans
    /\ csvs = {}
    /\ deployments = {}
    /\ catalogSources = HealthyCatalog
    /\ policyExists = TRUE
    /\ persisted = EmptyStatus
    /\ status = EmptyStatus
    /\ pc = "idle"
    /\ condChanged = FALSE
    /\ earlyConds = <<>>
    /\ errs = <<>>
    /\ subscription = Nil
    /\ csv = Nil
    /\ stagesRun = <<>>
    /\ calls = <<>>
    /\ emitted = <<>>
    /\ failures = 0
    /\ envSteps = 0
    /\ matching = Nil
    /\ merging = Nil
    /\ lastRun = NoRun
    /\ cachedPlans = installPlans
    /\ racing = Some([i \in Racers |-> [at |-> "start", listed |-> {}, result |-> Nil]])

\* lines 454-458: the run lists the operator groups
RaceList(i) ==
    /\ ~IsNil(racing)
    /\ Val(racing)[i].at = "start"
    /\ racing' = Some([Val(racing) EXCEPT ![i].at = "listed", ![i].listed = opGroups])
    /\ UNCHANGED <<policyVars, clusterVars, persisted, runVars, failures, envSteps, matching,
                   merging, lastRun, cachedPlans>>

\* lines 460-575: the run acts on the groups it listed; a Create reaches the
\* cluster as it is by then
RaceAct(i) ==
    /\ ~IsNil(racing)
    /\ Val(racing)[i].at = "listed"
    /\ \E r \in {handleOpGroup(policy, EmptyStatus, desiredOG, Val(racing)[i].listed, "none")} :
          /\ racing' = Some([Val(racing) EXCEPT ![i].at = "done", ![i].result = Some(r)])
          /\ opGroups' = opGroups \cup
                            {ServerCreate(opGroups, g) : g \in r.objects \ Val(racing)[i].listed}
    /\ UNCHANGED <<policyVars, namespaces, subscriptions, installPlans, csvs, deployments,
                   catalogSources, persisted, runVars, failures, envSteps, matching,
                   merging, lastRun, cachedPlans>>

RaceListStep == \E i \in Racers : RaceList(i)
RaceActStep == \E i \in Racers : RaceAct(i)

RaceNext ==
    \/ RaceListStep
    \/ RaceActStep

RaceSpec == RaceInit /\ [][RaceNext]_vars

\* the calls the step added to the run
NewCalls == SubSeq(calls', Len(calls) + 1, Len(calls'))
AllStages == <<"build", "og", "sub", "ip", "csv", "dep", "cat">>

PlanOf(n) == Val(installPlans[n])

OwnedPlans ==
    {n \in PlanNames :
        /\ ~IsNil(subscription)
        /\ ~IsNil(installPlans[n])
        /\ PlanOf(n).namespace = Val(subscription).namespace
        /\ \E o \in PlanOf(n).owners :
              /\ o.name = Val(subscription).name
              /\ o.kind = "Subscription"
              /\ o.apiVersion = "operators.coreos.com/v1alpha1"}

PendingPlans == {n \in OwnedPlans : PlanOf(n).phase = RequiresApproval}

\* the plan targets exactly one version, and the allow-list is empty or holds it
SingleTargetAllowed(n) ==
    /\ ~IsNil(PlanOf(n).csvs)
    /\ Len(Val(PlanOf(n).csvs)) = 1
    /\ (policy.versions = {} \/ Val(PlanOf(n).csvs)[1] \in policy.versions)

ApprovablePlans == {n \in PendingPlans : SingleTargetAllowed(n)}

\* the plan targets several versions, or one version that is not in the allow-list
OutsideAllowList(n) ==
    /\ ~IsNil(PlanOf(n).csvs)
    /\ \/ Len(Val(PlanOf(n).csvs)) > 1
       \/ Len(Val(PlanOf(n).csvs)) = 1 /\ Val(PlanOf(n).csvs)[1] \notin policy.versions

CurrentPlanFailed ==
    \E n \in OwnedPlans :
        /\ PlanOf(n).phase = Failed
        /\ Val(subscription).status.installPlanRef = Some(n)

AnyPlanInstalling == \E n \in OwnedPlans : PlanOf(n).phase = Installing

TargetsOf(n) == IF IsNil(PlanOf(n).csvs) THEN <<"unknown">> ELSE Val(PlanOf(n).csvs)

InstallPlanCond == Val(status.conds[installPlanConditionType])

\* the condition lists the plan's targets among the pending versions
ListedAsPending(n) ==
    /\ InstallPlanCond.status = "False"
    /\ InstallPlanCond.reason = "InstallPlanRequiresApproval"
    /\ \E i \in 1..Len(InstallPlanCond.msg[1]) : InstallPlanCond.msg[1][i] = TargetsOf(n)

\* C2 (as the code has it): with a non-empty allow-list a plan that targets
\* several versions, or one version outside the allow-list, never has its
\* approval flag set.  Right after the install-plan stage of a run that
\* finds such a plan pending, the InstallPlan condition is the plan-failed
\* one when the current plan has failed, else the installing one when an
\* owned plan is Installing, else, in enforce mode with exactly one
\* approvable pending plan, the approved one, naming that other plan's
\* version and not this plan, which is then only a NonCompliant related
\* object; in every other case the condition is NonCompliant and lists the
\* plan's targets as pending.
AllowListGatesApproval ==
    policy.versions # {} =>
        \A n \in PlanNames :
            ~IsNil(installPlans[n]) /\ OutsideAllowList(n) =>
                /\ ~PlanOf(n).approved
                /\ pc = "csv" /\ n \in PendingPlans =>
                      IF CurrentPlanFailed
                      THEN InstallPlanCond = installPlanFailed
                      ELSE IF AnyPlanInstalling
                      THEN InstallPlanCond = installPlanInstallingCond
                      ELSE IF policy.remediationAction = "enforce"
                              /\ Cardinality(ApprovablePlans) = 1
                      THEN /\ \E m \in ApprovablePlans :
                                 InstallPlanCond = installPlanApprovedCond(TargetsOf(m)[1])
                           /\ ~ListedAsPending(n)
                           /\ RelObj("InstallPlan", n, "NonCompliant",
                                     "The InstallPlan is RequiresApproval")
                                  \in status.related["InstallPlan"]
                      ELSE ListedAsPending(n)

\* a plan for an allowed version was approved next to a pending plan for a
\* version outside the allow-list
ApprovedNextToDisallowedPlan ==
    /\ pc = "csv"
    /\ policy.versions = {"v1"}
    /\ "ip1" \in PendingPlans /\ PlanOf("ip1").approved /\ TargetsOf("ip1") = <<"v1">>
    /\ "ip2" \in PendingPlans /\ ~PlanOf("ip2").approved /\ TargetsOf("ip2") = <<"v2">>
    /\ InstallPlanCond = installPlanApprovedCond("v1")

\* C2 as stated: with a non-empty allow-list, a pending plan outside the
\* allow-list is unapproved and, after every run that saw it, is listed as
\* pending in a NonCompliant InstallPlan condition.
DisallowedPlanAlwaysListedPending ==
    policy.versions # {} =>
        \A n \in PlanNames :
            ~IsNil(installPlans[n]) /\ OutsideAllowList(n) =>
                /\ ~PlanOf(n).approved
                /\ pc = "csv" /\ n \in PendingPlans => ListedAsPending(n)

\* the versions the condition lists as pending, as a set
ListedVersions(cond) == {cond.msg[1][i] : i \in 1..Len(cond.msg[1])}

\* C3: in enforce mode, when the current plan has not failed, no owned plan
\* is Installing and some owned plan requires approval, a successful
\* install-plan stage does one of two things.  With exactly one approvable
\* pending plan it issues one Update, for that plan, which sets its approval
\* flag and changes no other plan, and reports the condition Compliant naming
\* the approved version.  With no or several approvable plans it changes no
\* plan, issues no Update and reports NonCompliant listing the versions of
\* every pending plan.
EnforceApprovesOnlySinglePlan ==
    [][/\ pc = "ip" /\ pc' = "csv"
       /\ policy.remediationAction = "enforce"
       /\ ~IsNil(subscription)
       /\ ~CurrentPlanFailed /\ ~AnyPlanInstalling /\ PendingPlans # {}
       => IF Cardinality(ApprovablePlans) = 1
          THEN LET n == CHOOSE m \in ApprovablePlans : TRUE
               IN /\ installPlans' =
                        [installPlans EXCEPT ![n] = Some([PlanOf(n) EXCEPT !.approved = TRUE])]
                  /\ Len(SelectSeq(NewCalls, IsClusterWrite)) = 1
                  /\ \E i \in 1..Len(NewCalls) :
                        NewCalls[i] = Call("Update", "InstallPlan", n, TRUE)
                  /\ InstallPlanCond'.status = "True"
                  /\ InstallPlanCond'.reason = "InstallPlansApproved"
                  /\ InstallPlanCond'.msg = <<TargetsOf(n)[1]>>
          ELSE /\ installPlans' = installPlans
               /\ SelectSeq(NewCalls, IsClusterWrite) = <<>>
               /\ InstallPlanCond'.status = "False"
               /\ InstallPlanCond'.reason = "InstallPlanRequiresApproval"
               /\ ListedVersions(InstallPlanCond') = {TargetsOf(n) : n \in PendingPlans}
               /\ Len(InstallPlanCond'.msg[1]) = Cardinality(PendingPlans)]_vars

\* with no allow-list, the one single-version plan was approved and a pending
\* plan for several versions was left alone
SinglePlanApprovedOtherLeft ==
    /\ pc = "csv"
    /\ policy.remediationAction = "enforce"
    /\ policy.versions = {}
    /\ Cardinality(PendingPlans) = 2
    /\ \E n \in PendingPlans :
          /\ ApprovablePlans = {n}
          /\ PlanOf(n).approved
          /\ InstallPlanCond.msg = <<TargetsOf(n)[1]>>
    /\ \E n \in PendingPlans : ~PlanOf(n).approved /\ Len(TargetsOf(n)) = 2


\* C4: the verdict of a successful install-plan stage follows the priority
\*   the subscription's current plan is Failed -> NonCompliant, plan failed;
\*   else an owned plan is Installing          -> NonCompliant, installing;
\*   else the subscription owns no plan        -> Compliant, no plans;
\*   else no owned plan requires approval      -> Compliant, nothing to approve;
\*   else, in inform mode                      -> NonCompliant, listing the
\*                                                versions of every pending plan;
\* in these five cases no plan is changed and no write is issued, and a Failed
\* plan that is not the current plan never gives the plan-failed verdict.
InstallPlanVerdictPriority ==
    [][pc = "ip" /\ pc' = "csv" /\ ~IsNil(subscription) =>
          /\ ~CurrentPlanFailed => InstallPlanCond'.reason # "InstallPlanFailed"
          /\ IF CurrentPlanFailed
             THEN /\ InstallPlanCond'.status = "False"
                  /\ InstallPlanCond'.reason = "InstallPlanFailed"
                  /\ installPlans' = installPlans /\ SelectSeq(NewCalls, IsClusterWrite) = <<>>
             ELSE IF AnyPlanInstalling
             THEN /\ InstallPlanCond'.status = "False"
                  /\ InstallPlanCond'.reason = "InstallPlansInstalling"
                  /\ installPlans' = installPlans /\ SelectSeq(NewCalls, IsClusterWrite) = <<>>
             ELSE IF OwnedPlans = {}
             THEN /\ InstallPlanCond'.status = "True"
                  /\ InstallPlanCond'.reason = "NoInstallPlansFound"
                  /\ installPlans' = installPlans /\ SelectSeq(NewCalls, IsClusterWrite) = <<>>
             ELSE IF PendingPlans = {}
             THEN /\ InstallPlanCond'.status = "True"
                  /\ InstallPlanCond'.reason = "NoInstallPlansRequiringApproval"
                  /\ installPlans' = installPlans /\ SelectSeq(NewCalls, IsClusterWrite) = <<>>
             ELSE IF policy.remediationAction = "inform"
             THEN /\ InstallPlanCond'.status = "False"
                  /\ InstallPlanCond'.reason = "InstallPlanRequiresApproval"
                  /\ ListedVersions(InstallPlanCond') = {TargetsOf(n) : n \in PendingPlans}
                  /\ installPlans' = installPlans /\ SelectSeq(NewCalls, IsClusterWrite) = <<>>
             ELSE TRUE]_vars

\* a Failed plan that is not the subscription's current plan, next to an
\* Installing plan: the verdict is the installing one
StaleFailedPlanIgnored ==
    /\ pc = "csv"
    /\ \E n \in OwnedPlans : PlanOf(n).phase = Failed
    /\ ~CurrentPlanFailed
    /\ AnyPlanInstalling
    /\ InstallPlanCond.reason = "InstallPlansInstalling"


\* the operator groups the operator-group stage lists
DesiredOpGroupBuilt == ~IsNil(desiredOG) /\ Val(desiredOG).namespace # ""
ListedOpGroups == {g \in opGroups : g.namespace = Val(desiredOG).namespace}
OpGroupCond == Val(status.conds[opGroupConditionType])
NewWrites == SelectSeq(NewCalls, IsClusterWrite)

\* C5: in enforce mode with no OperatorGroup in the target namespace the
\* operator-group stage issues at most one write and, when it returns without
\* error, that write is one Create of the desired group, one group is added
\* to the cluster and the OperatorGroup condition is True; an operator-group
\* stage that lists a group some run of the policy created issues no write
\* and changes no OperatorGroup.
CreateOpGroupOnce ==
    [][pc = "og" /\ DesiredOpGroupBuilt =>
          /\ policy.remediationAction = "enforce" /\ ListedOpGroups = {} =>
                /\ Len(NewWrites) <= 1
                /\ pc' = "sub" =>
                      /\ Len(NewWrites) = 1
                      /\ NewWrites[1].op = "Create" /\ NewWrites[1].kind = "OperatorGroup"
                      /\ NewWrites[1].ok
                      /\ opGroups \subseteq opGroups'
                      /\ Cardinality(opGroups' \ opGroups) = 1
                      /\ \A g \in opGroups' \ opGroups :
                            /\ g.namespace = Val(desiredOG).namespace
                            /\ g.spec.targetNamespaces = Val(desiredOG).spec.targetNamespaces
                      /\ OpGroupCond'.status = "True"
                      /\ OpGroupCond'.reason = "OperatorGroupCreated"
          /\ (\E g \in ListedOpGroups : g.createdByPolicy) =>
                /\ NewWrites = <<>>
                /\ opGroups' = opGroups]_vars

\* a run after the one that created the named group found it matching and
\* did not write
CreatedOpGroupFoundMatching ==
    /\ pc = "sub"
    /\ policy.remediationAction = "enforce"
    /\ ~IsNil(policy.operatorGroup)
    /\ DesiredOpGroupBuilt
    /\ \E g \in ListedOpGroups : g.createdByPolicy /\ g.name = "og1"
    /\ OpGroupCond.reason = "OperatorGroupMatches"
    /\ SelectSeq(calls, IsClusterWrite) = <<>>


\* C6: when the operator-group stage lists two or more OperatorGroups in the
\* target namespace it issues no write and changes no OperatorGroup, whatever
\* the remediation mode, and, when the listing succeeded, the OperatorGroup
\* condition is False with reason TooManyOperatorGroups and the related
\* OperatorGroup objects are exactly the listed groups, each NonCompliant.
TooManyOpGroupsReported ==
    [][pc = "og" /\ DesiredOpGroupBuilt /\ Cardinality(ListedOpGroups) >= 2 =>
          /\ NewWrites = <<>>
          /\ opGroups' = opGroups
          /\ pc' = "sub" =>
                /\ OpGroupCond'.status = "False"
                /\ OpGroupCond'.reason = "TooManyOperatorGroups"
                /\ {o.name : o \in status'.related["OperatorGroup"]}
                       = {g.name : g \in ListedOpGroups}
                /\ \A o \in status'.related["OperatorGroup"] : o.compliant = "NonCompliant"]_vars

\* an enforced policy found its own group next to somebody else's
TwoOpGroupsUnderEnforce ==
    /\ pc = "sub"
    /\ policy.remediationAction = "enforce"
    /\ DesiredOpGroupBuilt
    /\ Cardinality(ListedOpGroups) = 2
    /\ \E g \in ListedOpGroups : g.createdByPolicy
    /\ OpGroupCond.reason = "TooManyOperatorGroups"
    /\ Cardinality(status.related["OperatorGroup"]) = 2


\* the run executed the stage
Executed(stage) == \E i \in 1..Len(stagesRun) : stagesRun[i] = stage

\* the dimension has the Unknown condition of an invalid policy
UnknownInvalid(kind) ==
    /\ status.conds[condType(kind)] = Some(invalidCausingUnknownCond(kind))
    /\ Val(status.conds[condType(kind)]).status = "Unknown"
    /\ ~IsCompliantCond(Val(status.conds[condType(kind)]))

StageErrors ==
    [build |-> {"error getting operator namespace"},
     og |-> {"error listing OperatorGroups", "error creating the OperatorGroup",
             "error checking if the OperatorGroup needs an update",
             "error updating the OperatorGroup"},
     sub |-> {"error getting the Subscription", "error creating the Subscription",
              "error checking if the Subscription needs an update",
              "error updating the Subscription"},
     ip |-> {"error listing InstallPlans", "error updating approved InstallPlan"},
     csv |-> {"error getting the ClusterServiceVersion"},
     dep |-> {"error getting the Deployment"},
     cat |-> {"error getting CatalogSource"}]
TailErrors == {"error updating the policy status", "error emitting the compliance event"}
IsStageError(e) == \E s \in DOMAIN StageErrors : e \in StageErrors[s]
IsTailError(e) == e \in TailErrors
StageErrorsOf(es) == SelectSeq(es, IsStageError)

CallsOf(op) == SelectSeq(calls, LAMBDA c : c.op = op)

\* C9: when a stage failed with a collaborator error in a run in which the
\* validity check or a stage changed a condition, Reconcile has, when it
\* returns, issued the status update (and the stored status is the run's
\* status, with those changes, unless the update itself failed), has emitted
\* the final compliance event, computed from that status, as the last event,
\* and returns the stage error.
StatusWrittenDespiteStageError ==
    pc = "done" /\ StageErrorsOf(errs) # <<>> /\ condChanged =>
        /\ Len(CallsOf("StatusUpdate")) = 1
        /\ CallsOf("StatusUpdate")[1].ok => persisted = status
        /\ emitted # <<>>
        /\ emitted[Len(emitted)].cond = calculateComplianceCondition(status)
        /\ Len(CallsOf("Emit")) = Len(emitted)
        /\ IsStageError(errs[1])

\* the Subscription stage failed after the validity check and the
\* operator-group stage had set their conditions: both are in the stored status
EarlierChangesStored ==
    /\ pc = "done"
    /\ errs = <<"error creating the Subscription">>
    /\ condChanged
    /\ persisted = status
    /\ ~IsNil(persisted.conds[validPolicyConditionType])
    /\ ~IsNil(persisted.conds[opGroupConditionType])
    /\ Val(persisted.conds[subConditionType]).reason = "SubscriptionMissing"
    /\ Len(emitted) = 1 /\ emitted[1].ok


\* the calls that read from the watch cache
IsCacheRead(call) == call.op \in {"Get", "List"} /\ call.kind # "OperatorPolicy"

\* C10: when Reconcile returns from a run whose StartQueryBatch succeeded,
\* the run has called EndQueryBatch exactly once, for the identifier the batch
\* was started with, as its last call, so after every cache read, whether or
\* not the pipeline had an error; and the step that ends the batch, failing
\* or not, changes neither the errors Reconcile returns nor the stored status
\* nor the events.
BatchEndedOnce ==
    [][pc' = "done" /\ (\E i \in 1..Len(calls') :
                            calls'[i].op = "StartQueryBatch" /\ calls'[i].ok) =>
          LET started == CHOOSE i \in 1..Len(calls') : calls'[i].op = "StartQueryBatch"
              last == Len(calls')
          IN /\ Len(SelectSeq(calls', LAMBDA c : c.op = "EndQueryBatch")) = 1
             /\ calls'[last].op = "EndQueryBatch"
             /\ calls'[last].name = calls'[started].name
             /\ \A i \in 1..last : IsCacheRead(calls'[i]) => started < i /\ i < last
             /\ errs' = errs
             /\ persisted' = persisted
             /\ emitted' = emitted]_vars

\* EndQueryBatch failed after a run without errors: Reconcile returns no error
BatchEndFailureDropped ==
    /\ pc = "done"
    /\ stagesRun = AllStages
    /\ ~calls[Len(calls)].ok
    /\ calls[Len(calls)].op = "EndQueryBatch"
    /\ errs = <<>>


\* the subscription the subscription stage finds for the desired one
FoundSubs ==
    {x \in subscriptions :
        x.namespace = Val(desiredSub).namespace /\ x.name = Val(desiredSub).name}
SubCond == Val(status.conds[subConditionType])

\* the merge of the desired object into the existing one changes the existing
\* one, and the API server rejects that change as forbidden
ForbiddenMismatch(desired, existing) ==
    /\ existing.locked
    /\ handleKeys(desired.spec, existing.spec, policy.complianceType) # existing.spec

\* mergeObjects, with a dry run that reaches the server, returns
\* updateNeeded = true, updateForbidden = true and no error
ReturnsForbidden(desired, existing) ==
    LET m == mergeObjects(desired, existing, policy.complianceType, TRUE)
    IN m.updateNeeded /\ m.updateIsForbidden /\ IsNil(m.err)

\* the one operator group the stage lists has the desired name (or prefix)
\* and a merge the server forbids
OpGroupForbidden ==
    /\ DesiredOpGroupBuilt
    /\ Cardinality(ListedOpGroups) = 1
    /\ \A g \in ListedOpGroups :
          opGroupNameMatches(g, Val(desiredOG)) /\ ForbiddenMismatch(Val(desiredOG), g)

SubscriptionForbidden ==
    /\ ~IsNil(desiredSub)
    /\ FoundSubs # {}
    /\ \A s \in FoundSubs : ForbiddenMismatch(Val(desiredSub), s)

MentionsSubscription(sub, mentions) ==
    \E i \in 1..Len(mentions) :
        /\ \/ mentions[i].keyword = "subscription" /\ mentions[i].name = sub.name
           \/ mentions[i].keyword = "package" /\ mentions[i].name = sub.spec.name
        /\ mentions[i].namespace \in {"", sub.namespace}
        /\ mentions[i].after \in {"", ",", ":"}

\* C12: messageIncludesSubscription returns true exactly when the message
\* holds "subscription <name>" or "package <package>", the name bare or
\* prefixed by "<namespace>/", followed at once by the end of the message,
\* white space, a comma or a colon; so a message that mentions only
\* gatekeeper-operator does not match the subscription gatekeeper-operator-product,
\* nor the other way round.
MessageMatchesOnlyOwnSubscription ==
    ~IsNil(matching) /\ ~IsNil(Val(matching).result) =>
        Val(Val(matching).result)
            = MentionsSubscription(Val(matching).subscription, Val(matching).mentions)

\* the message mentions the longer name only, and the subscription with the
\* shorter name was found not to be included
LongerNameNotMatched ==
    /\ ~IsNil(matching)
    /\ Val(matching).subscription.name = "gatekeeper-operator"
    /\ Val(matching).mentions =
           <<Mention("subscription", "", "gatekeeper-operator-product", ",")>>
    /\ Val(matching).result = Some(FALSE)


\* the found subscription needs no update: the merge, with a dry run that
\* reaches the server, reports no difference
NoUpdateNeeded(s) ==
    LET m == mergeObjects(Val(desiredSub), s, policy.complianceType, TRUE)
    IN IsNil(m.err) /\ ~m.updateNeeded

\* the mentions of the resolution failures the cluster may hold
ResolutionMentions ==
    {<<Mention("package", "", Package, ""), Mention("subscription", "", Package, ",")>>,
     <<Mention("subscription", "", "other", "")>>}

\* the message is one of a resolution failure that mentions the subscription
IsOwnFailure(s, message) ==
    \E mentions \in ResolutionMentions :
        message = ResolutionMessage(mentions) /\ MentionsSubscription(s, mentions)

OtherName(g) ==
    /\ g.name # Val(desiredOG).name
    /\ ~(Val(desiredOG).name = "" /\ g.generateName = Val(desiredOG).generateName)

\* the merge of the desired group into the group leaves a difference
SpecDiffers(g) ==
    mergeObjects(Val(desiredOG), g, policy.complianceType, TRUE).updateNeeded

\* C14: when the policy has no operator-group fragment and the namespace
\* holds exactly one OperatorGroup that has another name and generateName
\* prefix than the default candidate, or whose spec differs from it, the
\* operator-group stage creates and updates nothing, in inform and in enforce
\* mode, and, when it returns without error, the OperatorGroup condition is
\* the Compliant pre-existing-group one and the related OperatorGroup object
\* is the existing group, listed as matching.
PreexistingOpGroupAccepted ==
    [][/\ pc = "og" /\ pc' # "og"
       /\ DesiredOpGroupBuilt
       /\ IsNil(policy.operatorGroup)
       /\ Cardinality(ListedOpGroups) = 1
       => \A g \in ListedOpGroups :
              OtherName(g) \/ SpecDiffers(g) =>
                  /\ NewWrites = <<>>
                  /\ opGroups' = opGroups
                  /\ pc' = "sub" =>
                        /\ OpGroupCond' = opGroupPreexistingCond
                        /\ OpGroupCond'.status = "True"
                        /\ OpGroupCond'.reason = "PreexistingOperatorGroupFound"
                        /\ status'.related["OperatorGroup"]
                               = {RelObj("OperatorGroup", g.name, "Compliant",
                                         "Resource found as expected")}]_vars

\* an enforced policy without an operator-group fragment found somebody
\* else's group and accepted it
ForeignOpGroupAccepted ==
    /\ pc = "sub"
    /\ policy.remediationAction = "enforce"
    /\ IsNil(policy.operatorGroup)
    /\ DesiredOpGroupBuilt
    /\ ListedOpGroups = {ExtraOpGroup}
    /\ opGroups = {ExtraOpGroup}
    /\ OpGroupCond = opGroupPreexistingCond
    /\ SelectSeq(calls, IsClusterWrite) = <<>>


\* C15: when the policy specifies an operator group and the namespace holds
\* exactly one OperatorGroup, with another name, the operator-group stage
\* creates, updates and deletes nothing, in enforce mode too, and reports the
\* OperatorGroup condition False with the mismatch reason and two related
\* objects: the desired group as missing and the existing group as
\* mismatched.
OtherNamedOpGroupLeftAlone ==
    [][/\ pc = "og" /\ pc' # "og"
       /\ DesiredOpGroupBuilt
       /\ ~IsNil(policy.operatorGroup)
       /\ Cardinality(ListedOpGroups) = 1
       => \A g \in ListedOpGroups :
              g.name # Val(desiredOG).name =>
                  /\ NewWrites = <<>>
                  /\ opGroups' = opGroups
                  /\ pc' = "sub" =>
                        /\ OpGroupCond' = mismatchCond("OperatorGroup")
                        /\ OpGroupCond'.status = "False"
                        /\ OpGroupCond'.reason = "OperatorGroupMismatch"
                        /\ status'.related["OperatorGroup"]
                               = {RelObj("OperatorGroup", Val(desiredOG).name, "NonCompliant",
                                         "Resource not found but should exist"),
                                  RelObj("OperatorGroup", g.name, "NonCompliant",
                                         "Resource found but does not match")}]_vars

\* an enforced policy that names its operator group found only somebody
\* else's group and left it alone
NamedOpGroupNotCreated ==
    /\ pc = "sub"
    /\ policy.remediationAction = "enforce"
    /\ ~IsNil(policy.operatorGroup)
    /\ DesiredOpGroupBuilt
    /\ opGroups = {ExtraOpGroup}
    /\ OpGroupCond.reason = "OperatorGroupMismatch"
    /\ Cardinality(status.related["OperatorGroup"]) = 2
    /\ SelectSeq(calls, IsClusterWrite) = <<>>


\* the existing object differs from the desired one: in musthave mode a
\* desired field is absent or has another value; in mustonlyhave mode the
\* object is not what the server would store for the desired one
Differs(desired, existing) ==
    IF policy.complianceType = "musthave"
    THEN \E k \in DOMAIN desired.spec :
             k \notin DOMAIN existing.spec \/ existing.spec[k] # desired.spec[k]
    ELSE ServerDefault(desired.spec) # existing.spec

\* the object holds the desired fields and, in musthave mode, every other
\* field of the object it replaces
IsMergeOf(new, desired, existing) ==
    /\ new.name = existing.name
    /\ \A k \in DOMAIN desired.spec : new.spec[k] = desired.spec[k]
    /\ policy.complianceType = "musthave" =>
           \A k \in DOMAIN existing.spec \ DOMAIN desired.spec :
               k \in DOMAIN new.spec /\ new.spec[k] = existing.spec[k]

OneWrite(op, kind, ok) ==
    /\ Len(NewWrites) = 1
    /\ NewWrites[1].op = op /\ NewWrites[1].kind = kind /\ NewWrites[1].ok = ok

\* the stage's own error is the last error of the run so far
StageFailedWith(e) == pc' = "tail" /\ errs' = Append(errs, e)

\* the outcome of an enforced stage that has to update `existing`
UpdateOutcome(kind, desired, existing, objects, objectsAfter, condAfter, relatedAfter) ==
    /\ Len(NewWrites) <= 1
    /\ pc' # "tail" =>
          /\ OneWrite("Update", kind, TRUE)
          /\ NewWrites[1].name = existing.name
          /\ \E new \in objectsAfter :
                /\ objectsAfter = (objects \ {existing}) \cup {new}
                /\ IsMergeOf(new, desired, existing)
          /\ condAfter = updatedCond(kind)
          /\ IsCompliantCond(condAfter)
    /\ NewWrites # <<>> /\ pc' = "tail" =>
          /\ OneWrite("Update", kind, FALSE)
          /\ objectsAfter = objects
          /\ condAfter = mismatchCond(kind)
          /\ ~IsCompliantCond(condAfter)
          /\ StageFailedWith("error updating the " \o kind)
    /\ NewWrites = <<>> => pc' = "tail" /\ objectsAfter = objects

\* the outcome of an enforced stage that has to create the desired object
CreateOutcome(kind, objects, objectsAfter, condAfter) ==
    /\ Len(NewWrites) <= 1
    /\ pc' # "tail" =>
          /\ OneWrite("Create", kind, TRUE)
          /\ condAfter = createdCond(kind)
          /\ IsCompliantCond(condAfter)
    /\ NewWrites # <<>> /\ pc' = "tail" =>
          /\ OneWrite("Create", kind, FALSE)
          /\ objectsAfter = objects
          /\ condAfter = missingWantedCond(kind)
          /\ ~IsCompliantCond(condAfter)
          /\ StageFailedWith("error creating the " \o kind)
    /\ NewWrites = <<>> => pc' = "tail" /\ objectsAfter = objects

\* the condition is the created or the updated one only in a step whose
\* Create or Update returned without error
CompliantOnlyAfterWrite(kind, condBefore, condAfter) ==
    condAfter # condBefore /\ ~IsNil(condAfter)
    /\ Val(condAfter) \in {createdCond(kind), updatedCond(kind)} =>
        \E i \in 1..Len(NewCalls) :
            /\ NewCalls[i].op \in {"Create", "Update"}
            /\ NewCalls[i].kind = kind /\ NewCalls[i].ok

EnforcedAllowListForcesManual ==
    [][pc = "build" /\ pc' # "build" /\ ~IsNil(desiredSub') =>
          LET approval == Val(desiredSub').spec.installPlanApproval
          IN IF policy.remediationAction = "enforce" /\ policy.versions # {}
             THEN approval = "Manual"
             ELSE approval = policy.subscription.installPlanApproval]_vars

\* an enforced policy with allowed versions and an Automatic fragment, its
\* desired subscription built with Manual
AutomaticFragmentBuiltManual ==
    /\ pc = "og"
    /\ policy.remediationAction = "enforce" /\ policy.versions # {}
    /\ policy.subscription.installPlanApproval = "Automatic"
    /\ ~IsNil(desiredSub)
    /\ Val(desiredSub).spec.installPlanApproval = "Manual"


\* the validation failures of the policy on this cluster, each found on its own
SubscriptionFailure ==
    LET e == buildSubscription(policy, defaultNamespace).err
    IN IF IsNil(e) THEN {} ELSE {Val(e)}
OperatorGroupFailure ==
    LET e == buildOperatorGroup(policy, opGroupNamespace(policy, defaultNamespace)).err
    IN IF IsNil(e) THEN {} ELSE {Val(e)}
NamespaceFailure ==
    IF NamespaceMissing THEN {"the operator namespace does not exist"} ELSE {}
ValidationFailures == SubscriptionFailure \cup OperatorGroupFailure \cup NamespaceFailure
ValidCond == Val(status.conds[validPolicyConditionType])

\* C18: a buildResources step that returns without error leaves one
\* ValidPolicySpec condition that carries every validation failure of the
\* subscription fragment, of the operator-group fragment and of the
\* namespace check, each once, and is False exactly when there is one.  In
\* the same run the stage of a desired object that was not built (for the
\* operator group: built without a namespace) makes no call and reports
\* Unknown, and the stage of a desired object that was built reads the
\* cluster and, when it returns without error, reports a condition other
\* than the Unknown one.
ValidationFailuresCollected ==
    [][/\ pc = "build" /\ pc' = "og" =>
              /\ ~IsNil(status'.conds[validPolicyConditionType])
              /\ ValidCond'.type = validPolicyConditionType
              /\ SeqToSet(ValidCond'.msg) = ValidationFailures
              /\ Len(ValidCond'.msg) = Cardinality(ValidationFailures)
              /\ ValidCond'.status = (IF ValidationFailures = {} THEN "True" ELSE "False")
       /\ pc = "og" /\ pc' # "og" =>
              IF DesiredOpGroupBuilt
              THEN /\ NewCalls # <<>>
                   /\ NewCalls[1].op = "List" /\ NewCalls[1].kind = "OperatorGroup"
                   /\ pc' = "sub" => ~UnknownInvalid("OperatorGroup")'
              ELSE NewCalls = <<>> /\ pc' = "sub" /\ UnknownInvalid("OperatorGroup")'
       /\ pc = "sub" /\ pc' # "sub" =>
              IF ~IsNil(desiredSub)
              THEN /\ NewCalls # <<>>
                   /\ NewCalls[1].op = "Get" /\ NewCalls[1].kind = "Subscription"
                   /\ pc' = "ip" => ~UnknownInvalid("Subscription")'
              ELSE NewCalls = <<>> /\ pc' = "ip" /\ UnknownInvalid("Subscription")'
      ]_vars

\* a run over a policy whose operator-group fragment is invalid and whose
\* namespace does not exist: both failures in the one condition, the
\* OperatorGroup Unknown, the Subscription looked for and reported missing
TwoFailuresOneDimensionUnknown ==
    /\ pc = "ip"
    /\ OperatorGroupFailure # {} /\ NamespaceFailure # {} /\ SubscriptionFailure = {}
    /\ Len(ValidCond.msg) = 2
    /\ UnknownInvalid("OperatorGroup")
    /\ SubCond = missingWantedCond("Subscription")
    /\ \E i \in 1..Len(calls) : calls[i].op = "Get" /\ calls[i].kind = "Subscription"


FailedCalls == {i \in 1..Len(calls) : ~calls[i].ok /\ calls[i].op # "EndQueryBatch"}

PlansOfSubscription ==
    {n \in PlanNames :
        /\ ~IsNil(installPlans[n])
        /\ Val(installPlans[n]).namespace = "ns1"
        /\ \E o \in Val(installPlans[n]).owners : o.name = Package /\ o.kind = "Subscription"}

\* the plan waits for approval and installs exactly one version
WaitsForApproval(n) ==
    /\ n \in PlansOfSubscription
    /\ Val(installPlans[n]).phase = RequiresApproval
    /\ ~IsNil(Val(installPlans[n]).csvs)
    /\ Len(Val(installPlans[n]).csvs) = 1

VersionOf(n) == Val(Val(installPlans[n]).csvs)[1]
VersionPermitted(n) == policy.versions = {} \/ VersionOf(n) \in policy.versions

\* the subscription's current plan has failed
RefersToFailedPlan ==
    \E n \in PlansOfSubscription, s \in subscriptions :
        /\ Val(installPlans[n]).phase = Failed
        /\ s.status.installPlanRef = Some(n)

\* plan n is the only plan of the subscription the policy can approve, the
\* policy is enforced, and the environment makes no further change
OnlyApprovablePlan(n) ==
    /\ policyExists
    /\ policy.remediationAction = "enforce"
    /\ \E s \in subscriptions : s.namespace = "ns1" /\ s.name = Package
    /\ WaitsForApproval(n) /\ VersionPermitted(n)
    /\ ~Val(installPlans[n]).approved
    /\ \A m \in PlansOfSubscription \ {n} : ~(WaitsForApproval(m) /\ VersionPermitted(m))
    /\ \A m \in PlansOfSubscription : Val(installPlans[m]).phase # Installing
    /\ ~RefersToFailedPlan
    /\ envSteps = MaxEnvSteps

\* C20: under fair scheduling of the runs, once the collaborators fail no
\* more and the environment changes nothing further, a plan of an enforced
\* policy that waits for approval and is the only plan the policy can
\* approve (the current plan has not failed, no plan is Installing) is
\* eventually approved.  This includes the plan whose version the user has
\* just added to the policy's versions.
OnlyApprovablePlanApproved ==
    \A n \in PlanNames :
        (OnlyApprovablePlan(n) /\ failures = MaxFailures)
            ~> (~IsNil(installPlans[n]) /\ Val(installPlans[n]).approved)

\* a plan approved by a run after its version was added to the policy's
\* versions: no policy starts with v2 among its versions
AddedVersionApproved ==
    \E n \in PlanNames :
        /\ ~IsNil(installPlans[n])
        /\ Val(installPlans[n]).approved
        /\ Val(installPlans[n]).csvs = Some(<<"v2">>)
        /\ policy.versions = {"v1", "v2"}
        /\ status.conds[installPlanConditionType] = Some(installPlanApprovedCond("v2"))
        /\ failures = MaxFailures /\ envSteps = MaxEnvSteps


\* a dimension of the run's status holds a NonCompliant condition, or none yet
SomeDimensionNonCompliant(st) ==
    \E t \in CondTypes : IsNil(st.conds[t]) \/ ~IsCompliantCond(Val(st.conds[t]))

EmitCalls(cs) == SelectSeq(cs, LAMBDA call : call.op = "Emit")

\* C21: the events a run has collected before its actions (the early
\* events) all report NonCompliant, and a run that ends with a dimension
\* NonCompliant emits no event that reports Compliant: each of its early
\* events and its final event is sent as NonCompliant.  This holds for every
\* run of a sequence of runs.
NoCompliantEventWhileNonCompliant ==
    /\ [](\A i \in 1..Len(earlyConds) : ~earlyConds[i].compliant)
    /\ [][pc = "tail" /\ pc' = "defer" /\ SomeDimensionNonCompliant(status) =>
              /\ \A i \in 1..Len(emitted') : ~emitted'[i].cond.compliant
              /\ \A i \in 1..Len(EmitCalls(NewCalls)) :
                     EmitCalls(NewCalls)[i].name = "NonCompliant"
              /\ Len(EmitCalls(NewCalls)) = Len(emitted')]_vars

\* an enforced run that created the subscription while no installed version
\* is there: the early and the final event emitted, both NonCompliant
EarlyAndFinalEventNonCompliant ==
    /\ pc = "done"
    /\ Len(emitted) = 2
    /\ \A i \in 1..2 : emitted[i].ok /\ ~emitted[i].cond.compliant
    /\ status.conds[subConditionType] = Some(createdCond("Subscription"))
    /\ status.conds[csvConditionType] = Some(noCSVCond)
    /\ stagesRun = AllStages


MergeCall == Val(merging)
MergeResult == Val(Val(merging).result)
Merged == ~IsNil(merging) /\ ~IsNil(Val(merging).result)

\* some desired field is absent from the existing object or has another value there
DesiredFieldDiffers(desired, existing) ==
    \E k \in DOMAIN desired.spec :
        k \notin DOMAIN existing.spec \/ existing.spec[k] # desired.spec[k]

\* C22: mergeObjects in musthave mode leaves every field that only the
\* existing object has as it is, gives every desired field the desired
\* value, and reports updateNeeded exactly when some desired field is absent
\* from the existing object or has another value there; for desired {a: 1}
\* and existing {a: 2, b: 3} it reports updateNeeded with a = 1 and b = 3 in
\* the merged object.
MustHaveMergeKeepsOtherFields ==
    Merged /\ MergeCall.complianceType = "musthave" =>
        LET desired == MergeCall.desired
            existing == MergeCall.existing
            merged == MergeResult.merged
        IN /\ \A k \in DOMAIN existing.spec \ DOMAIN desired.spec :
                  k \in DOMAIN merged.spec /\ merged.spec[k] = existing.spec[k]
           /\ \A k \in DOMAIN desired.spec :
                  k \in DOMAIN merged.spec /\ merged.spec[k] = desired.spec[k]
           /\ DOMAIN merged.spec = DOMAIN existing.spec \cup DOMAIN desired.spec
           /\ MergeResult.updateNeeded = DesiredFieldDiffers(desired, existing)
           /\ (desired.spec = [a |-> 1]
               /\ existing.spec = ServerDefault([a |-> 2, b |-> 3])) =>
                  /\ MergeResult.updateNeeded
                  /\ merged.spec = ServerDefault([a |-> 1, b |-> 3])

\* the merge of desired {a: 1} into existing {a: 2, b: 3}, accepted by the dry run
MergedExample ==
    /\ Merged
    /\ MergeCall.complianceType = "musthave"
    /\ MergeCall.desired.spec = [a |-> 1]
    /\ MergeCall.existing.spec = ServerDefault([a |-> 2, b |-> 3])
    /\ MergeCall.dryRunOK /\ ~MergeCall.existing.locked
    /\ MergeResult.updateNeeded
    /\ MergeResult.merged.spec.a = 1 /\ MergeResult.merged.spec.b = 3


\* the structural merge of the desired object changes the existing one, and
\* the object the server returns for the dry-run write of the merge holds
\* what the existing one held
OnlyStructuralMismatch(desired, existing) ==
    LET mergedSpec == handleKeys(desired.spec, existing.spec, policy.complianceType)
    IN /\ mergedSpec # existing.spec
       /\ ~existing.locked
       /\ ServerDefault(mergedSpec) = existing.spec

\* the one operator group the stage lists has the desired name (or prefix)
\* and differs from the merge only until the server has filled the merge in
OpGroupOnlyStructuralMismatch ==
    /\ DesiredOpGroupBuilt
    /\ Cardinality(ListedOpGroups) = 1
    /\ \A g \in ListedOpGroups :
          opGroupNameMatches(g, Val(desiredOG)) /\ OnlyStructuralMismatch(Val(desiredOG), g)

DryRunAccepted ==
    \E i \in 1..Len(NewCalls) : NewCalls[i].op = "DryRunUpdate" /\ NewCalls[i].ok

OwnedPlanEntries == {existingInstallPlanObj(n, PlanOf(n).phase) : n \in OwnedPlans}

\* the related InstallPlan objects of a status that name a plan
PlanEntries(st) == {o \in st.related["InstallPlan"] : o.name \in PlanNames}

\* a plan that is not the subscription's is left as it is
OtherPlansUntouched ==
    \A n \in PlanNames \ OwnedPlans : installPlans'[n] = installPlans[n]

\* the stage has read the list of the install plans
PlansObserved ==
    \E i \in 1..Len(NewCalls) :
        NewCalls[i].op = "List" /\ NewCalls[i].kind = "InstallPlan" /\ NewCalls[i].ok

\* C24 (as stated): after every InstallPlan stage of a run that resolved the
\* subscription and observed the plans, the related InstallPlan objects that
\* name a plan are exactly the plans the subscription owns, each with its
\* phase, and no other plan is changed.
OwnedPlansRelatedAfterEveryRun ==
    [][pc = "ip" /\ pc' # "ip" /\ ~IsNil(subscription) /\ PlansObserved =>
          /\ PlanEntries(status') = OwnedPlanEntries
          /\ OtherPlansUntouched]_vars

\* C24 (as the code has it): an InstallPlan stage that resolved the
\* subscription and returns without error leaves as related InstallPlan
\* objects exactly the plans the subscription owns (owner reference of kind
\* Subscription, apiVersion operators.coreos.com/v1alpha1 and the
\* subscription's name), each with its observed phase, or the one
\* no-relevant-plans entry when it owns none: plans of others are not
\* listed and entries of plans that are gone are dropped.  A stage that
\* fails on the List or on the Update of the approval leaves the status as
\* the run found it.  No stage changes a plan that is not the subscription's.
OwnedPlansRelatedAfterStage ==
    [][pc = "ip" /\ pc' # "ip" /\ ~IsNil(subscription) =>
          /\ pc' = "csv" =>
                status'.related["InstallPlan"] =
                    IF OwnedPlans = {} THEN {noInstallPlansObj(Val(subscription).namespace)}
                    ELSE OwnedPlanEntries
          /\ pc' # "csv" => status' = status /\ ~NewCalls[Len(NewCalls)].ok
          /\ OtherPlansUntouched]_vars

\* the second run has dropped the entry of a plan that was deleted after
\* the first run, keeps the entry of the owned plan that is left, and lists
\* no plan of another subscription
DeletedPlanNotRelated ==
    /\ pc = "csv"
    /\ \E n \in PlanNames :
          /\ IsNil(installPlans[n])
          /\ \E o \in persisted.related["InstallPlan"] : o.name = n
          /\ \A o \in status.related["InstallPlan"] : o.name # n
    /\ OwnedPlans # {}
    /\ status.related["InstallPlan"] = OwnedPlanEntries


\* the deployments on the cluster that the installed-version record of the
\* run names
ObservedDeployments ==
    IF IsNil(csv) THEN {}
    ELSE {d \in deployments :
             d.namespace = Val(csv).namespace /\ d.name \in SeqToSet(Val(csv).deployments)}

DeploymentCond(st) == Val(st.conds[deploymentConditionType])

\* C25: a Deployment stage that returns without error reports the
\* deployments unhealthy (status False, reason DeploymentsUnavailable) when
\* at least one observed deployment named by the installed-version record
\* has unavailable replicas; it reports a no-deployments reason, distinct
\* from the unhealthy and the available one, when it observed no deployment
\* (noDeploymentsCond when no record was resolved, NoExistingDeployments
\* when the record's deployments are not found); otherwise it reports all
\* deployments available.
DeploymentConditionByAvailability ==
    [][pc = "dep" /\ pc' = "cat" =>
          LET cond == DeploymentCond(status')
          IN /\ ~IsNil(status'.conds[deploymentConditionType])
             /\ IsNil(csv) =>
                   /\ cond = noDeploymentsCond
                   /\ cond.reason \notin {"DeploymentsUnavailable", "DeploymentsAvailable"}
             /\ ~IsNil(csv) /\ ObservedDeployments = {} =>
                   /\ cond.reason = "NoExistingDeployments"
                   /\ cond.status = "True"
             /\ (\E d \in ObservedDeployments : d.unavailableReplicas > 0) =>
                   /\ cond.reason = "DeploymentsUnavailable"
                   /\ cond.status = "False"
                   /\ ~IsCompliantCond(cond)
             /\ (ObservedDeployments # {}
                 /\ \A d \in ObservedDeployments : d.unavailableReplicas = 0) =>
                   /\ cond.reason = "DeploymentsAvailable"
                   /\ cond.status = "True"]_vars

\* of the two deployments the record names, one is available and the other
\* is not, and the run has reported the deployments unhealthy
OneOfTwoDeploymentsUnavailable ==
    /\ pc = "cat"
    /\ ~IsNil(csv)
    /\ Cardinality(ObservedDeployments) = 2
    /\ \E d \in ObservedDeployments : d.unavailableReplicas = 0
    /\ \E d \in ObservedDeployments : d.unavailableReplicas > 0
    /\ status.conds[deploymentConditionType] # Nil
    /\ DeploymentCond(status).reason = "DeploymentsUnavailable"


\* the catalog sources on the cluster with the name the subscription of the
\* run gives as its source
ObservedCatalogSources ==
    IF IsNil(subscription) THEN {}
    ELSE {c \in catalogSources : c.name = Val(subscription).spec.source}

CatalogSourceCond(st) == Val(st.conds[catalogSrcConditionType])

\* C26: the CatalogSource stage of a run that resolved the subscription and
\* got an answer to its read reports, in inform and in enforce mode alike:
\* the NonCompliant not-found condition when the catalog source of the
\* subscription is absent, the unknown-state condition when it is present
\* without a connection state, the NonCompliant found-but-unhealthy
\* condition when its last observed state is not READY, and the Compliant
\* found condition when the state is READY.  The stage writes nothing to the
\* cluster.
CatalogSourceVerdict ==
    [][pc = "cat" /\ pc' # "cat" =>
          /\ NewWrites = <<>>
          /\ \A i \in 1..Len(NewCalls) : NewCalls[i].op = "Get"
          /\ catalogSources' = catalogSources
          /\ ~IsNil(subscription) /\ errs' = errs =>
                LET cond == CatalogSourceCond(status')
                IN /\ ~IsNil(status'.conds[catalogSrcConditionType])
                   /\ ObservedCatalogSources = {} =>
                         /\ cond.reason = "CatalogSourcesNotFound"
                         /\ ~IsCompliantCond(cond)
                   /\ \A c \in ObservedCatalogSources :
                         /\ IsNil(c.state) => cond = catalogSourceUnknownCond
                         /\ ~IsNil(c.state) /\ Val(c.state) # "READY" =>
                               /\ cond.reason = "CatalogSourcesFoundUnhealthy"
                               /\ ~IsCompliantCond(cond)
                         /\ c.state = Some("READY") =>
                               /\ cond.reason = "CatalogSourcesFound"
                               /\ IsCompliantCond(cond)]_vars

\* an enforced run has found the catalog source of the subscription in a
\* state that is not READY, reported it unhealthy and written no catalog source
EnforcedRunFoundCatalogUnhealthy ==
    /\ pc = "tail"
    /\ "cat" \in SeqToSet(stagesRun)
    /\ policy.remediationAction = "enforce"
    /\ ~IsNil(subscription)
    /\ \E c \in ObservedCatalogSources : ~IsNil(c.state) /\ Val(c.state) # "READY"
    /\ status.conds[catalogSrcConditionType] # Nil
    /\ CatalogSourceCond(status).reason = "CatalogSourcesFoundUnhealthy"
    /\ \A i \in 1..Len(calls) : calls[i].kind = "CatalogSource" => calls[i].op = "Get"


PolicyGet(ok) == Call("Get", "OperatorPolicy", opPolIdentifier, ok)

\* nothing of a run beyond the given calls has happened: no stage, no status
\* write, no event, no change of the cluster
NothingElseHappens ==
    /\ stagesRun' = <<>>
    /\ emitted' = <<>>
    /\ earlyConds' = <<>>
    /\ persisted' = persisted
    /\ UNCHANGED <<policyVars, clusterVars>>

\* C27: when the policy no longer exists, Reconcile calls RemoveWatcher for
\* the policy's identifier after the Get and returns no error, whether
\* RemoveWatcher succeeds or fails; when the Get fails with another error,
\* Reconcile returns that error after the Get alone.  In both cases no query
\* batch is started or ended, no stage runs, no status is written and no
\* event is emitted, and the run is over.
GonePolicyOnlyRemovesWatcher ==
    /\ [][pc = "idle" /\ pc' # "idle" /\ calls'[1].ok /\ ~policyExists =>
              /\ Len(calls') = 2
              /\ calls'[1] = PolicyGet(TRUE)
              /\ calls'[2].op = "RemoveWatcher" /\ calls'[2].name = opPolIdentifier
              /\ errs' = <<>>
              /\ pc' = "done"
              /\ NothingElseHappens]_vars
    /\ [][pc = "idle" /\ pc' # "idle" /\ ~calls'[1].ok =>
              /\ calls' = <<PolicyGet(FALSE)>>
              /\ errs' = <<"Failed to get operator policy">>
              /\ pc' = "done"
              /\ NothingElseHappens]_vars
    /\ [][pc = "done" /\ calls[1].op = "Get" /\ (~calls[1].ok \/ calls[Len(calls)].op = "RemoveWatcher") =>
              /\ pc' = "idle"
              /\ persisted' = persisted
              /\ UNCHANGED <<policyVars, clusterVars>>]_vars

\* the policy is gone, RemoveWatcher has failed, and Reconcile returns no error
RemoveWatcherFailureIgnored ==
    /\ pc = "done"
    /\ ~policyExists
    /\ calls = <<PolicyGet(TRUE), Call("RemoveWatcher", "", opPolIdentifier, FALSE)>>
    /\ errs = <<>>
    /\ stagesRun = <<>>
    /\ emitted = <<>>


\* the merge of the desired fields changes the existing object
StructuralChange(desired, existing, complianceType) ==
    IF complianceType = "mustonlyhave"
    THEN desired.spec # existing.spec
    ELSE DesiredFieldDiffers(desired, existing)

\* the dry-run write of the call was made and the server accepted it
DryRunWasAccepted ==
    /\ StructuralChange(MergeCall.desired, MergeCall.existing, MergeCall.complianceType)
    /\ MergeCall.dryRunOK
    /\ ~MergeCall.existing.locked

\* C28 (as stated): the object the caller handed to mergeObjects still
\* carries the observed resource version when mergeObjects returns.
CallerObjectKeepsResourceVersion ==
    Merged => MergeResult.merged.resourceVersion = MergeCall.existing.resourceVersion

\* C28 (as the code has it): mergeObjects strips the server-managed fields
\* from its working copy and, after a dry run the server accepted, from the
\* caller's object as well: the caller's object carries the observed
\* resource version when mergeObjects returns only if no dry run was made,
\* or the dry run failed or was refused as forbidden.
CallerObjectStrippedAfterDryRun ==
    Merged =>
        IF DryRunWasAccepted
        THEN /\ MergeResult.merged.resourceVersion # MergeCall.existing.resourceVersion
             /\ removeFieldsForComparison(MergeResult.merged) = MergeResult.merged
        ELSE MergeResult.merged.resourceVersion = MergeCall.existing.resourceVersion

\* mergeObjects has returned updateNeeded = true without error, and the
\* object the caller will send in the persisted Update has lost the
\* observed resource version
UpdateObjectWithoutResourceVersion ==
    /\ Merged
    /\ DryRunWasAccepted
    /\ MergeResult.updateNeeded /\ ~MergeResult.updateIsForbidden /\ IsNil(MergeResult.err)
    /\ MergeCall.existing.resourceVersion = ObservedResourceVersion
    /\ MergeResult.merged.resourceVersion # ObservedResourceVersion


StatusUpdates(cs) == SelectSeq(cs, LAMBDA c : c.op = "StatusUpdate")

\* the run follows a run that wrote nothing to the cluster and left its
\* status in the store, with no change of the policy or the cluster since
AfterStoredRunUnchanged == lastRun.stored /\ lastRun.envSteps = envSteps

\* the run makes no status update and emits no event
SendsNoSignal ==
    /\ NewCalls = <<>>
    /\ emitted' = <<>>
    /\ persisted' = persisted

\* C29 (as stated): a run in which no stage reported a condition change
\* makes no status update and emits no compliance event; and a run that
\* follows a run which persisted its status, over the same policy and the
\* same cluster, makes no status update and emits no event.
SecondRunNeverSignals ==
    /\ [][pc = "tail" /\ pc' # "tail" /\ ~condChanged => SendsNoSignal]_vars
    /\ [][pc = "tail" /\ pc' # "tail" /\ AfterStoredRunUnchanged /\ lastRun.updated =>
              SendsNoSignal]_vars

\* C29 (as the code has it): a run in which no stage reported a condition
\* change makes no status update and emits no compliance event; and a run
\* that follows a run which executed every stage without error, wrote
\* nothing to the cluster and left its status in the store, with the policy
\* and the cluster unchanged since, reports no condition change, makes no
\* status update and emits no event.
QuietRunSendsNoSignal ==
    /\ [][pc = "tail" /\ pc' # "tail" /\ ~condChanged =>
              /\ StatusUpdates(NewCalls) = <<>>
              /\ EmitCalls(NewCalls) = <<>>
              /\ SendsNoSignal]_vars
    /\ [][pc = "tail" /\ pc' # "tail" /\ AfterStoredRunUnchanged /\ lastRun.complete =>
              /\ ~condChanged
              /\ status = persisted
              /\ SendsNoSignal]_vars

\* the second of two runs over the same policy and cluster has ended: the
\* first persisted a status with every condition set, the second ran every
\* stage, wrote no status and emitted no event
SecondRunSilent ==
    /\ pc = "done"
    /\ AfterStoredRunUnchanged
    /\ lastRun.complete
    /\ stagesRun = AllStages
    /\ \A t \in CondTypes : ~IsNil(persisted.conds[t])
    /\ StatusUpdates(calls) = <<>>
    /\ EmitCalls(calls) = <<>>
    /\ emitted = <<>>


StagePcs == {"build", "og", "sub", "ip", "csv", "dep", "cat"}

\* the conditions of the events, in the order of emission
EmittedConds(es) == [i \in 1..Len(es) |-> es[i].cond]

\* C30: in a run in which some condition changed, Reconcile first makes
\* exactly one status update, then emits one event for each early condition,
\* in the order in which the stages returned them, and then exactly one
\* final event for the compliance computed from the conditions the last
\* executed stage left; an event that fails to be emitted does not stop the
\* later ones, and its error is added to the errors Reconcile returns, as is
\* the error of a failed status update.
ChangedRunUpdatesOnceThenEmits ==
    /\ [][(pc \in StagePcs /\ pc' # pc) =>
              (/\ Len(earlyConds') >= Len(earlyConds)
               /\ earlyConds = SubSeq(earlyConds', 1, Len(earlyConds)))]_vars
    /\ [][pc = "tail" /\ pc' # "tail" /\ condChanged =>
              LET n == Len(earlyConds) + 1
                  failed == {i \in 1..n : ~emitted'[i].ok}
              IN /\ Len(NewCalls) = n + 1
                 /\ NewCalls[1].op = "StatusUpdate"
                 /\ Len(StatusUpdates(NewCalls)) = 1
                 /\ Len(emitted') = n
                 /\ EmittedConds(emitted') = Append(earlyConds, calculateComplianceCondition(status))
                 /\ \A i \in 1..n :
                       /\ NewCalls[i + 1].op = "Emit"
                       /\ NewCalls[i + 1].ok = emitted'[i].ok
                       /\ NewCalls[i + 1].name =
                              (IF emitted'[i].cond.compliant THEN "Compliant" ELSE "NonCompliant")
                 /\ Len(errs') = Len(errs) + Cardinality(failed)
                                 + (IF NewCalls[1].ok THEN 0 ELSE 1)
                 /\ SubSeq(errs', 1, Len(errs)) = errs
                 /\ persisted' = IF NewCalls[1].ok THEN status ELSE persisted]_vars

\* a run has emitted the early event of the OperatorGroup stage, failed to
\* emit the early event of the Subscription stage, emitted the final event
\* all the same, and returns the error of the failed event
FailedEarlyEventDoesNotStopFinal ==
    /\ pc = "done"
    /\ Len(emitted) = 3
    /\ emitted[1].ok /\ ~emitted[2].ok /\ emitted[3].ok
    /\ emitted[1].cond.reasons[subConditionType] # emitted[2].cond.reasons[subConditionType]
    /\ emitted[3].cond = calculateComplianceCondition(status)
    /\ Len(StatusUpdates(calls)) = 1
    /\ errs = <<"error emitting the compliance event">>


\* the stage has ended with the failed Update of an install plan's approval
ApprovalWriteFailed ==
    /\ NewCalls # <<>>
    /\ NewCalls[Len(NewCalls)].op = "Update"
    /\ NewCalls[Len(NewCalls)].kind = "InstallPlan"
    /\ ~NewCalls[Len(NewCalls)].ok

\* C31: when the persisted Update that sets the approval flag of the chosen
\* install plan fails, the InstallPlan stage leaves the policy's InstallPlan
\* condition and related objects as they were, reports no condition change,
\* and returns the error, which ends the pipeline of the run.
FailedApprovalLeavesStatus ==
    [][pc = "ip" /\ pc' # "ip" /\ ApprovalWriteFailed =>
          /\ status'.conds[installPlanConditionType] = status.conds[installPlanConditionType]
          /\ status'.related["InstallPlan"] = status.related["InstallPlan"]
          /\ status' = status
          /\ condChanged' = condChanged
          /\ earlyConds' = earlyConds
          /\ errs' = Append(errs, "error updating approved InstallPlan")
          /\ installPlans' = installPlans
          /\ pc' = "tail"]_vars

\* an enforced run has ended with the error of the failed approval, and the
\* plan that waited for approval is neither approved nor in the status
ApprovalFailureReturned ==
    /\ pc = "done"
    /\ policy.remediationAction = "enforce"
    /\ errs = <<"error updating approved InstallPlan">>
    /\ stagesRun = <<"build", "og", "sub", "ip">>
    /\ IsNil(status.conds[installPlanConditionType])
    /\ \E n \in OwnedPlans : PlanOf(n).phase = RequiresApproval /\ ~PlanOf(n).approved


\* the plans whose cached object carries the approval flag while the object
\* in the cluster does not
ApprovedInCacheOnly ==
    {n \in PlanNames :
        /\ ~IsNil(cachedPlans[n])
        /\ ~IsNil(installPlans[n])
        /\ Val(cachedPlans[n]).approved
        /\ ~Val(installPlans[n]).approved}

\* C32: a stage of a run changes no object of the watch cache in place: when
\* the InstallPlan stage has persisted nothing (its write failed, or it wrote
\* nothing), the cached install plans are what the cache returned to the stage.
CachedPlansNotModifiedInPlace ==
    [][pc = "ip" /\ pc' # "ip" /\ installPlans' = installPlans => cachedPlans' = cachedPlans]_vars

\* C32, as the code behaves: the approval flag is set on the listed object
\* before the Update is sent, so a failed approval leaves the flag on the
\* cached plan, and on that plan only, while the cluster's plan is unchanged.
FailedApprovalMarksCachedPlan ==
    [][pc = "ip" /\ pc' # "ip" /\ ApprovalWriteFailed =>
          /\ installPlans' = installPlans
          /\ \E n \in PlanNames :
                /\ NewCalls[Len(NewCalls)].name = n
                /\ ~IsNil(cachedPlans[n])
                /\ cachedPlans'[n] = Some([Val(cachedPlans[n]) EXCEPT !.approved = TRUE])
                /\ \A m \in PlanNames \ {n} : cachedPlans'[m] = cachedPlans[m]]_vars

\* a run has ended on the failed approval, and the cache holds an approved
\* plan that the cluster holds unapproved
CachedPlanApprovedClusterNot ==
    /\ pc = "done"
    /\ errs = <<"error updating approved InstallPlan">>
    /\ ApprovedInCacheOnly # {}


\* the Updates of install plans among the calls of a stage
IsApprovalWrite(c) == c.op = "Update" /\ c.kind = "InstallPlan"
ApprovalWrites == SelectSeq(NewCalls, IsApprovalWrite)

\* the subscription owns plan n alone, n waits for approval and names one
\* version that the policy allows
OnlyPlanApprovable(n) ==
    /\ OwnedPlans = {n}
    /\ PlanOf(n).phase = RequiresApproval
    /\ ~IsNil(PlanOf(n).csvs)
    /\ Len(Val(PlanOf(n).csvs)) = 1
    /\ (policy.versions = {} \/ Val(PlanOf(n).csvs)[1] \in policy.versions)

\* C33: no run issues the approval write for an install plan whose approval
\* flag is already set, so that over any sequence of enforce-mode runs a plan
\* is written at most once.
ApprovedPlanNotWrittenAgain ==
    [][pc = "ip" /\ pc' # "ip" =>
          \A i \in 1..Len(ApprovalWrites) :
             ~PlanOf(ApprovalWrites[i].name).approved]_vars

\* C33 (as the code has it): a run issues at most one approval write, in
\* enforce mode, for an owned plan whose phase reads RequiresApproval; and an
\* enforce-mode run that lists the plans and finds the only owned plan
\* approvable issues the write for it, whether or not its approval flag is
\* already set.
ApprovalWrittenWhilePhasePending ==
    [][pc = "ip" /\ pc' # "ip" =>
          /\ Len(ApprovalWrites) <= 1
          /\ \A i \in 1..Len(ApprovalWrites) :
                /\ policy.remediationAction = "enforce"
                /\ ApprovalWrites[i].name \in OwnedPlans
                /\ PlanOf(ApprovalWrites[i].name).phase = RequiresApproval
          /\ \A n \in PlanNames :
                (/\ policy.remediationAction = "enforce"
                 /\ OnlyPlanApprovable(n)
                 /\ NewCalls # <<>>
                 /\ NewCalls[1].ok)
                => /\ Len(ApprovalWrites) = 1
                   /\ ApprovalWrites[1].name = n]_vars

\* a later run has issued the approval write again, and failed, for a plan
\* that an earlier run approved and whose phase still reads RequiresApproval
ApprovedPlanWrittenAgain ==
    /\ pc = "done"
    /\ policy.remediationAction = "enforce"
    /\ \E i \in 1..Len(calls) :
          /\ IsApprovalWrite(calls[i])
          /\ ~calls[i].ok
          /\ PlanOf(calls[i].name).approved
          /\ PlanOf(calls[i].name).phase = RequiresApproval


\* the operator groups of a namespace that a run of the controller created
CreatedOpGroups(namespace) == {g \in opGroups : g.createdByPolicy /\ g.namespace = namespace}

\* C34: however two runs without an operator-group fragment that resolve to
\* the same namespace interleave, and however stale the listing they act on,
\* the controller creates at most one OperatorGroup in that namespace.
AtMostOneOpGroupCreated ==
    \A namespace \in namespaces : Cardinality(CreatedOpGroups(namespace)) <= 1

\* run i acts on what it listed
RacerActs(i) ==
    /\ ~IsNil(racing)
    /\ Val(racing)[i].at = "listed"
    /\ Val(racing')[i].at = "done"

\* C34, as the code behaves: a run creates an OperatorGroup exactly when it
\* enforces and its own listing showed no group in the namespace, whatever
\* the namespace holds by the time of the Create; the group gets a generated
\* name of its own.
RunCreatesWhenItsListingWasEmpty ==
    [][\A i \in Racers : RacerActs(i) =>
          LET listedHere == {g \in Val(racing)[i].listed : g.namespace = Val(desiredOG).namespace}
              new == opGroups' \ opGroups
          IN /\ opGroups \subseteq opGroups'
             /\ IF policy.remediationAction = "enforce" /\ listedHere = {}
                THEN /\ Cardinality(new) = 1
                     /\ \A g \in new : /\ g.namespace = Val(desiredOG).namespace
                                       /\ g.generateName = Val(desiredOG).generateName
                                       /\ g.createdByPolicy
                ELSE new = {}]_vars

\* both runs listed before either created, and the namespace holds two
\* OperatorGroups that the controller created
TwoOpGroupsCreated ==
    /\ ~IsNil(racing)
    /\ \A i \in Racers : Val(racing)[i].at = "done" /\ Val(racing)[i].listed = {}
    /\ policy.remediationAction = "enforce"
    /\ IsNil(policy.operatorGroup)
    /\ Cardinality(CreatedOpGroups(Val(desiredOG).namespace)) = 2


\* the namespace the policy's subscription fragment resolves to: its
\* namespace field, or the configured default when the field is absent
FragmentNamespace ==
    IF IsNil(policy.subscription.namespace) THEN defaultNamespace
    ELSE Val(policy.subscription.namespace)

\* the operator groups a step has created in the cluster
NewOpGroups ==
    {g \in opGroups' : ~\E h \in opGroups : h.name = g.name /\ h.namespace = g.namespace}

\* C35: every OperatorGroup the controller creates is created in the
\* namespace the subscription fragment resolves to; none is created in the
\* configured default namespace when the fragment names another namespace.
OpGroupCreatedInFragmentNamespace ==
    [][pc = "og" /\ pc' # "og" =>
          \A g \in NewOpGroups : g.namespace = FragmentNamespace]_vars

\* C35, as the code behaves: an OperatorGroup is created in the namespace of
\* the subscription that buildSubscription built, and in the configured
\* default namespace when the fragment did not pass validation, whatever
\* namespace the fragment names.
OpGroupCreatedInBuiltNamespace ==
    [][pc = "og" /\ pc' # "og" =>
          \A g \in NewOpGroups :
             /\ g.createdByPolicy
             /\ g.namespace = IF IsNil(buildSubscription(policy, defaultNamespace).sub)
                              THEN defaultNamespace
                              ELSE FragmentNamespace]_vars

\* the fragment names a namespace and fails validation for another reason,
\* and the run has created an OperatorGroup in the default namespace
OpGroupCreatedInDefaultNamespace ==
    /\ pc = "done"
    /\ ~IsNil(policy.subscription.namespace)
    /\ Val(policy.subscription.namespace) # defaultNamespace
    /\ IsDNS1123Label(Val(policy.subscription.namespace))
    /\ \E g \in opGroups : g.createdByPolicy /\ g.namespace = defaultNamespace


\* the validity check of the run has ended with Valid=False
ValidFalse ==
    /\ ~IsNil(status.conds[validPolicyConditionType])
    /\ Val(status.conds[validPolicyConditionType]).status = "False"

\* the subscription fragment does not pass validation
SubscriptionFragmentInvalid ==
    \/ IsNil(policy.subscription.namespace) /\ defaultNamespace = ""
    \/ ~IsDNS1123Label(FragmentNamespace)
    \/ policy.subscription.unknownField
    \/ policy.subscription.installPlanApproval \notin {"Manual", "Automatic"}

\* the operator-group fragment does not pass validation
OperatorGroupFragmentInvalid ==
    /\ ~IsNil(policy.operatorGroup)
    /\ \/ /\ Val(policy.operatorGroup).namespace # ""
          /\ opGroupNamespace(policy, defaultNamespace) # ""
          /\ Val(policy.operatorGroup).namespace # opGroupNamespace(policy, defaultNamespace)
       \/ IsNil(Val(policy.operatorGroup).name)
       \/ Val(policy.operatorGroup).unknownField

\* C36: in a run whose validity check ended with Valid=False, whatever the
\* validation failure, no stage issues a Create or a persisted Update.
InvalidRunIssuesNoWrite ==
    [][(pc \in {"og", "sub", "ip"} /\ ValidFalse) =>
          (SelectSeq(NewCalls, IsClusterWrite) = <<>>)]_vars

\* C36 (as the code has it): the stage of a dimension whose desired object
\* could not be built calls nothing and changes nothing in the cluster: the
\* OperatorGroup stage when the operator-group fragment is invalid, the
\* Subscription and InstallPlan stages when the subscription fragment is.
\* (The stage of a dimension whose desired object was built proceeds.)
UnbuiltDimensionIssuesNothing ==
    [][/\ (pc = "og" /\ pc' # "og" /\ OperatorGroupFragmentInvalid)
             => (NewCalls = <<>> /\ opGroups' = opGroups)
       /\ (pc = "sub" /\ pc' # "sub" /\ SubscriptionFragmentInvalid)
             => (NewCalls = <<>> /\ subscriptions' = subscriptions)
       /\ (pc = "ip" /\ pc' # "ip" /\ SubscriptionFragmentInvalid)
             => (NewCalls = <<>> /\ installPlans = installPlans')]_vars

\* an enforced run with an invalid operator-group fragment has ended with
\* Valid=False, has issued nothing for the OperatorGroup and has created
\* the Subscription
InvalidRunCreatedSubscription ==
    /\ pc = "done"
    /\ ValidFalse
    /\ OperatorGroupFragmentInvalid
    /\ ~SubscriptionFragmentInvalid
    /\ \A i \in 1..Len(calls) : calls[i].kind # "OperatorGroup"
    /\ \E i \in 1..Len(calls) :
          calls[i].op = "Create" /\ calls[i].kind = "Subscription" /\ calls[i].ok


\* the step has made the status update of the run, and the update failed
StatusUpdateFailed ==
    /\ StatusUpdates(NewCalls) # <<>>
    /\ ~StatusUpdates(NewCalls)[1].ok

\* C37: the events of a run are emitted only if the status update of the run
\* succeeded: when the update fails the run emits no event (so that the retry
\* is the only run that emits them).
FailedStatusUpdateEmitsNothing ==
    [][(pc = "tail" /\ StatusUpdateFailed) =>
          (emitted' = <<>> /\ EmitCalls(NewCalls) = <<>>)]_vars

\* C37, as the code behaves: a failed status update is recorded as an error
\* and the run goes on to emit every early event and the final event, while
\* the stored status stays what it was.
FailedStatusUpdateStillEmits ==
    [][(pc = "tail" /\ StatusUpdateFailed) =>
          (/\ condChanged
           /\ persisted' = persisted
           /\ EmittedConds(emitted') = Append(earlyConds, calculateComplianceCondition(status))
           /\ Len(EmitCalls(NewCalls)) = Len(earlyConds) + 1
           /\ \A i \in 1..Len(emitted') : emitted'[i].ok
           /\ errs' = Append(errs, "error updating the policy status"))]_vars

\* a run has ended whose status update failed: its events are out, and the
\* stored status does not hold the state they announce
EventsEmittedStatusNotStored ==
    /\ pc = "done"
    /\ StatusUpdates(calls) # <<>>
    /\ ~StatusUpdates(calls)[1].ok
    /\ emitted # <<>>
    /\ persisted # status


\* the kind of object the stage at pc reconciles, and its desired object
StageKind == IF pc = "og" THEN "OperatorGroup" ELSE "Subscription"
StageDesired == IF pc = "og" THEN Val(desiredOG) ELSE Val(desiredSub)

\* the Creates and persisted Updates the stage has issued for its kind
StageWrites ==
    SelectSeq(NewCalls, LAMBDA c : c.op \in {"Create", "Update"} /\ c.kind = StageKind)

\* the status with the NonCompliant condition the stage sets before write w:
\* the object is missing (before a Create) or does not match (before an Update)
StatusBeforeWrite(w) ==
    IF w.op = "Create"
    THEN updateStatusTo(status, missingWantedCond(StageKind),
                        {missingWantedObj(StageKind, StageDesired)})
    ELSE updateStatusTo(status, mismatchCond(StageKind),
                        {mismatchedObj(StageKind, [name |-> w.name])})

\* C38: an enforce-mode OperatorGroup or Subscription stage that issues a
\* Create or an Update adds at most one early event, which reports
\* NonCompliant; it adds it exactly when the write succeeded and setting the
\* missing/mismatch condition changed the recorded status.  So a NonCompliant
\* condition that an earlier run recorded is not announced again, and a failed
\* Create or Update leaves no early event of the stage.
EarlyEventOnlyForNewNonCompliance ==
    [][(pc \in {"og", "sub"} /\ pc' # pc /\ StageWrites # <<>>) =>
          (/\ policy.remediationAction = "enforce"
           /\ Len(StageWrites) = 1
           /\ earlyConds' =
                 IF StageWrites[1].ok /\ StatusBeforeWrite(StageWrites[1]) # status
                 THEN Append(earlyConds,
                             calculateComplianceCondition(StatusBeforeWrite(StageWrites[1])))
                 ELSE earlyConds
           /\ \A i \in Len(earlyConds) + 1..Len(earlyConds') : ~earlyConds'[i].compliant)]_vars

\* an enforced run has created the Subscription whose absence an earlier
\* inform run had recorded: it has no early event and one final event
CreatedWithoutSecondNonCompliantEvent ==
    /\ pc = "done"
    /\ policy.remediationAction = "enforce"
    /\ lastRun.stored
    /\ \E i \in 1..Len(calls) :
          calls[i].op = "Create" /\ calls[i].kind = "Subscription" /\ calls[i].ok
    /\ earlyConds = <<>>
    /\ Len(emitted) = 1


\* the run follows a run that executed every stage without a failure, and
\* neither the policy nor the cluster was changed from outside since
AfterCompleteRunUnchanged == lastRun.complete /\ lastRun.envSteps = envSteps

NamedDeployments == IF IsNil(csv) THEN {} ELSE SeqToSet(Val(csv).deployments)

\* the named deployments that are not on the cluster
MissingDeployments ==
    {name \in NamedDeployments : ~\E d \in ObservedDeployments : d.name = name}

\* C40: the Deployment stage reports all deployments available only if every
\* deployment the installed-version record names was found and has no
\* unavailable replica; a named deployment that is missing prevents it.
AllAvailableOnlyIfAllFound ==
    [][(pc = "dep" /\ pc' = "cat" /\ DeploymentCond(status').reason = "DeploymentsAvailable") =>
          (/\ MissingDeployments = {}
           /\ \A d \in ObservedDeployments : d.unavailableReplicas = 0)]_vars

\* C40, as the code behaves: a named deployment that is missing is listed as
\* a NonCompliant related object and takes no part in the verdict: the stage
\* reports all deployments available exactly when it found at least one
\* named deployment and no found deployment has unavailable replicas.
MissingDeploymentListedNotCounted ==
    [][(pc = "dep" /\ pc' = "cat" /\ ~IsNil(csv)) =>
          (/\ \A name \in MissingDeployments :
                 missingDeploymentObj(name, Val(csv).namespace) \in status'.related["Deployment"]
           /\ (DeploymentCond(status').reason = "DeploymentsAvailable")
                 <=> (/\ ObservedDeployments # {}
                      /\ \A d \in ObservedDeployments : d.unavailableReplicas = 0))]_vars

\* one of the two named deployments is missing and listed as NonCompliant,
\* and the run has reported all deployments available
AllAvailableWithMissingDeployment ==
    /\ pc = "done"
    /\ ~IsNil(csv)
    /\ MissingDeployments # {}
    /\ \A name \in MissingDeployments :
          missingDeploymentObj(name, Val(csv).namespace) \in status.related["Deployment"]
    /\ ~IsNil(status.conds[deploymentConditionType])
    /\ DeploymentCond(status).reason = "DeploymentsAvailable"
    /\ DeploymentCond(status).status = "True"

=============================================================================
